---- MODULE Spec2Model ----
(***************************************************************************)
(* Canvas command-execution pipeline of ai-hack-foyr.                      *)
(*                                                                         *)
(* Two revisions of the server are modelled side by side; `variant` says   *)
(* which one runs:                                                         *)
(*   "evict" : routes with placeOrEvict, hand-written per-shape validation *)
(*             and a full shapes_updated broadcast after the command;      *)
(*   "delta" : routes with services/canvas placeShape (no eviction), the   *)
(*             type check + Zod safeParse, and per-shape deltas.           *)
(*                                                                         *)
(* Numbers.  The code computes in IEEE doubles.  The model is exact        *)
(* fixed-point arithmetic: every coordinate is an integer count of quarter *)
(* pixels (Px(n) is n pixels).  The shape batches offered to the model are *)
(* chosen so that every division the code performs on them is exact at     *)
(* that resolution.                                                        *)
(*                                                                         *)
(* A command handler is a chain of awaits.  One action of the model is one *)
(* record-store call taking effect together with the synchronous code that *)
(* follows it up to the next await.                                        *)
(***************************************************************************)
EXTENDS Integers, Sequences, FiniteSets, TLC

\* ------------------------------------------------------------------ bounds
MaxCmds == 2

MaxFailures == 1

MaxReads == 1

\* Writes made through the REST routes.
MaxRest == 3

\* --------------------------------------------------------------- numbers
Px(n) == n * 4

Min2(a, b) == IF a <= b THEN a ELSE b

Max2(a, b) == IF a >= b THEN a ELSE b

SetMin(S) == CHOOSE m \in S : \A n \in S : m <= n

SetMax(S) == CHOOSE m \in S : \A n \in S : m >= n

\* ---------------------------------------------------------------- shapes
\* A shape is a record; `num` is the set of fields for which
\* typeof field === 'number' (the other numeric fields are 0 and unused).
\* type "null" stands for a null entry of the oracle's shapes array;
\* strokeWidth 0 stands for a shape without the field.
ShapeTypes == {"rectangle", "circle", "line", "triangle", "star"}

Blank == [type |-> "", num |-> {}, x |-> 0, y |-> 0, width |-> 0,
          height |-> 0, radius |-> 0, x2 |-> 0, y2 |-> 0, strokeWidth |-> 0, id |-> 0]

NullEntry == [Blank EXCEPT !.type = "null"]

Circle(x, y, r) == [Blank EXCEPT !.type = "circle", !.num = {"x", "y", "radius"},
                    !.x = Px(x), !.y = Px(y), !.radius = Px(r)]

Rect(x, y, w, h) == [Blank EXCEPT !.type = "rectangle",
                     !.num = {"x", "y", "width", "height"},
                     !.x = Px(x), !.y = Px(y), !.width = Px(w), !.height = Px(h)]

Line(x, y, x2, y2) == [Blank EXCEPT !.type = "line", !.num = {"x", "y", "x2", "y2"},
                       !.x = Px(x), !.y = Px(y), !.x2 = Px(x2), !.y2 = Px(y2)]

IsNum(s, f) == f \in s.num

\* The shape with strokeWidth: w.
Stroke(s, w) == [s EXCEPT !.strokeWidth = w]

\* ------------------------------------------------------ geometry primitives
NoBounds == [ok |-> FALSE, minX |-> 0, minY |-> 0, maxX |-> 0, maxY |-> 0]

Box(a, b, c, d) == [ok |-> TRUE, minX |-> a, minY |-> b, maxX |-> c, maxY |-> d]

getShapeBounds(s) ==
  IF s.type \in {"circle", "star"}
  THEN IF IsNum(s, "x") /\ IsNum(s, "y") /\ IsNum(s, "radius")
       THEN Box(s.x - s.radius, s.y - s.radius, s.x + s.radius, s.y + s.radius)
       ELSE NoBounds
  ELSE IF s.type \in {"rectangle", "triangle"}
  THEN IF IsNum(s, "x") /\ IsNum(s, "y") /\ IsNum(s, "width") /\ IsNum(s, "height")
       THEN Box(s.x, s.y, s.x + s.width, s.y + s.height)
       ELSE NoBounds
  ELSE IF s.type = "line"
  THEN IF IsNum(s, "x") /\ IsNum(s, "y") /\ IsNum(s, "x2") /\ IsNum(s, "y2")
       THEN Box(Min2(s.x, s.x2), Min2(s.y, s.y2), Max2(s.x, s.x2), Max2(s.y, s.y2))
       ELSE NoBounds
  ELSE NoBounds

\* The union of the members' boxes; null when no member has a box.
unionOf(bs) ==
  IF bs = {} THEN NoBounds
  ELSE Box(SetMin({b.minX : b \in bs}), SetMin({b.minY : b \in bs}),
           SetMax({b.maxX : b \in bs}), SetMax({b.maxY : b \in bs}))

computeBounds(shapes) ==
  unionOf({b \in {getShapeBounds(s) : s \in {shapes[i] : i \in DOMAIN shapes}} : b.ok})

\* s.type on a null entry is a TypeError.
HasNull(shapes) == \E i \in DOMAIN shapes : shapes[i].type = "null"

\* ------------------------------------------------------------- normalizer
TargetW == Px(300)

TargetH == Px(300)

CenterX == Px(400)

CenterY == Px(300)

\* x = (x - cx) * scale + center.x, with scale = sn / sd
MapX(v, cx, sn, sd) == ((v - cx) * sn) \div sd + CenterX

MapY(v, cy, sn, sd) == ((v - cy) * sn) \div sd + CenterY

\* Math.max(1, v * scale)
Size(v, sn, sd) == Max2(Px(1), (v * sn) \div sd)

sizeOf(s, f, sn, sd) == IF IsNum(s, f) THEN Size(s[f], sn, sd) ELSE s[f]

moveXY(s, cx, cy, sn, sd) ==
  IF IsNum(s, "x") /\ IsNum(s, "y")
  THEN [s EXCEPT !.x = MapX(s.x, cx, sn, sd), !.y = MapY(s.y, cy, sn, sd)] ELSE s

moveEnd(s, cx, cy, sn, sd) ==
  IF IsNum(s, "x2") /\ IsNum(s, "y2")
  THEN [s EXCEPT !.x2 = MapX(s.x2, cx, sn, sd), !.y2 = MapY(s.y2, cy, sn, sd)] ELSE s

\* copy.strokeWidth = copy.strokeWidth || 2
orDefault(w) == IF w = 0 THEN 2 ELSE w

\* The switch on copy.type: one shape scaled about (cx, cy).
scaleShape(s, cx, cy, sn, sd) ==
  IF s.type \in {"circle", "star"}
  THEN [moveXY(s, cx, cy, sn, sd) EXCEPT !.radius = sizeOf(s, "radius", sn, sd)]
  ELSE IF s.type \in {"rectangle", "triangle"}
  THEN [moveXY(s, cx, cy, sn, sd) EXCEPT !.width = sizeOf(s, "width", sn, sd),
                                        !.height = sizeOf(s, "height", sn, sd)]
  ELSE IF s.type = "line" THEN moveEnd(moveXY(s, cx, cy, sn, sd), cx, cy, sn, sd)
  ELSE s

\* The body of shapes.map: the stroke width is back-filled, then the switch.
normalizeShape(s, cx, cy, sn, sd) ==
  scaleShape([s EXCEPT !.strokeWidth = orDefault(@)], cx, cy, sn, sd)

\* scale = min(TargetW / bw, TargetH / bh), kept as the fraction sn / sd;
\* wFirst says the width's ratio is the smaller one.
normalizeScaled(shapes, minX, minY, bw, bh, wFirst) ==
  [i \in DOMAIN shapes |->
     normalizeShape(shapes[i], minX + bw \div 2, minY + bh \div 2,
                    IF wFirst THEN TargetW ELSE TargetH, IF wFirst THEN bw ELSE bh)]

\* A normalizer that takes the larger of the two ratios.
normalizeWithinMax(shapes, minX, minY, bw, bh) ==
  normalizeScaled(shapes, minX, minY, bw, bh, TargetW * bh > TargetH * bw)

normalizeWithin(shapes, minX, minY, bw, bh) ==
  normalizeScaled(shapes, minX, minY, bw, bh, TargetW * bh <= TargetH * bw)

normalizeBounded(shapes, bounds) ==
  IF ~bounds.ok THEN shapes
  ELSE normalizeWithin(shapes, bounds.minX, bounds.minY,
                       Max2(Px(1), bounds.maxX - bounds.minX),
                       Max2(Px(1), bounds.maxY - bounds.minY))

normalizeShapesToCanvas(shapes) == normalizeBounded(shapes, computeBounds(shapes))

\* ------------------------------------------------------- placement engine
CanvasW == Px(800)

CanvasH == Px(600)

Margin == Px(10)

cols == 4

rows == 4

translateShape(s, dx, dy) ==
  [s EXCEPT !.x = IF IsNum(s, "x") THEN s.x + dx ELSE s.x,
            !.y = IF IsNum(s, "y") THEN s.y + dy ELSE s.y,
            !.x2 = IF IsNum(s, "x2") THEN s.x2 + dx ELSE s.x2,
            !.y2 = IF IsNum(s, "y2") THEN s.y2 + dy ELSE s.y2]

translateComposite(shapes, dx, dy) ==
  [i \in DOMAIN shapes |-> translateShape(shapes[i], dx, dy)]

\* The same test with the margin left out.
rectsOverlapNoMargin(a, b) ==
  ~(a.maxX < b.minX \/ a.minX > b.maxX \/ a.maxY < b.minY \/ a.minY > b.maxY)

rectsOverlap(a, b) ==
  ~(a.maxX + Margin < b.minX \/ a.minX - Margin > b.maxX
    \/ a.maxY + Margin < b.minY \/ a.minY - Margin > b.maxY)

\* for (const s of composite) for (const e of existing): both have bounds
\* and the bounds overlap.
anyOverlap(composite, existing) ==
  \E s \in {composite[i] : i \in DOMAIN composite} :
  \E e \in {existing[j] : j \in DOMAIN existing} :
     \E sb \in {getShapeBounds(s)} : \E eb \in {getShapeBounds(e)} :
        sb.ok /\ eb.ok /\ rectsOverlap(sb, eb)

\* The candidates with the loops swapped: c outer, r inner.
RECURSIVE CandidateLoopColMajor(_, _)
CandidateLoopColMajor(r, c) ==
  IF c > cols THEN <<>>
  ELSE IF r > rows THEN CandidateLoopColMajor(1, c + 1)
  ELSE <<[x |-> (c * Px(800)) \div (cols + 1), y |-> (r * Px(600)) \div (rows + 1)]>>
       \o CandidateLoopColMajor(r + 1, c)

\* for r = 1..rows { for c = 1..cols { push } }
RECURSIVE CandidateLoop(_, _)
CandidateLoop(r, c) ==
  IF r > rows THEN <<>>
  ELSE IF c > cols THEN CandidateLoop(r + 1, 1)
  ELSE <<[x |-> (c * CanvasW) \div (cols + 1), y |-> (r * CanvasH) \div (rows + 1)]>>
       \o CandidateLoop(r, c + 1)

Candidates == CandidateLoop(1, 1)

RECURSIVE ScanCandidates(_, _, _, _, _)
ScanCandidates(shapes, existing, cx, cy, k) ==
  IF k > Len(Candidates) THEN shapes
  ELSE IF ~anyOverlap(translateComposite(shapes, Candidates[k].x - cx,
                                         Candidates[k].y - cy), existing)
  THEN translateComposite(shapes, Candidates[k].x - cx, Candidates[k].y - cy)
  ELSE ScanCandidates(shapes, existing, cx, cy, k + 1)

\* A scan that nudges the group when every candidate collides.
placeFromNudged(shapes, existing, bounds) ==
  IF ~bounds.ok THEN shapes
  ELSE CHOOSE r \in {IF p = shapes THEN translateComposite(shapes, Px(10), Px(10)) ELSE p :
                       p \in {ScanCandidates(shapes, existing,
                                bounds.minX + (bounds.maxX - bounds.minX) \div 2,
                                bounds.minY + (bounds.maxY - bounds.minY) \div 2, 1)}} : TRUE

\* The scan from the centre of the group's bounds.
placeFrom(shapes, existing, bounds) ==
  IF ~bounds.ok THEN shapes
  ELSE ScanCandidates(shapes, existing,
                      bounds.minX + (bounds.maxX - bounds.minX) \div 2,
                      bounds.minY + (bounds.maxY - bounds.minY) \div 2, 1)

\* const bounds = computeBounds(shapes), then the scan.
placeCompositeWithoutOverlap(shapes, existing) ==
  CHOOSE placed \in {placeFrom(shapes, existing, bounds) :
                       bounds \in {computeBounds(shapes)}} : TRUE

\* --------------------------------------------------------- template matcher
\* The user's texts offered to the handlers.
Texts == {"", "draw a circle", "draw a nice smiley", "clear and draw a box",
          "delete the drawing"}

\* String.prototype.toLowerCase, for the letters the texts are written in.
UpperCase == "ABCDEFGHIJKLMNOPQRSTUVWXYZ"

LowerCase == "abcdefghijklmnopqrstuvwxyz"

LowerOf(ch) ==
  IF \E i \in 1..26 : SubSeq(UpperCase, i, i) = ch
  THEN SubSeq(LowerCase, CHOOSE i \in 1..26 : SubSeq(UpperCase, i, i) = ch,
              CHOOSE i \in 1..26 : SubSeq(UpperCase, i, i) = ch)
  ELSE ch

RECURSIVE toLowerCase(_)
toLowerCase(text) ==
  IF text = "" THEN "" ELSE LowerOf(SubSeq(text, 1, 1)) \o toLowerCase(Tail(text))

\* \w of a regular expression.
WordChars ==
  {SubSeq(w, i, i) : i \in 1..63,
                    w \in {"abcdefghijklmnopqrstuvwxyzABCDEFGHIJKLMNOPQRSTUVWXYZ0123456789_"}}

\* The positions at which kw occurs in text.
Occurrences(text, kw) ==
  {i \in 1..(Len(text) - Len(kw) + 1) : SubSeq(text, i, i + Len(kw) - 1) = kw}

\* \b on both sides of the occurrence of a word of length n at i.
WordAt(text, i, n) ==
  /\ i = 1 \/ SubSeq(text, i - 1, i - 1) \notin WordChars
  /\ i + n > Len(text) \/ SubSeq(text, i + n, i + n) \notin WordChars

\* text.includes(kw); the key "\\bdelete\\b" stands for /\bdelete\b/.test(text).
Includes(text, kw) ==
  IF kw = "\\bdelete\\b"
  THEN \E i \in Occurrences(text, "delete") : WordAt(text, i, 6)
  ELSE Occurrences(text, kw) # {}

SmileyTemplate ==
  << Stroke(Circle(300, 250, 80), 4), Stroke(Circle(270, 220, 8), 2),
     Stroke(Circle(330, 220, 8), 2), Stroke(Line(250, 280, 350, 280), 3) >>

SadTemplate ==
  << Stroke(Circle(300, 250, 80), 2), Stroke(Circle(270, 220, 8), 2),
     Stroke(Circle(330, 220, 8), 2), Stroke(Line(250, 320, 350, 320), 3) >>

TreeTemplate ==
  << Stroke(Rect(290, 290, 20, 80), 2),
     [Rect(240, 200, 120, 90) EXCEPT !.type = "triangle", !.strokeWidth = 2],
     [Rect(255, 160, 90, 70) EXCEPT !.type = "triangle", !.strokeWidth = 2],
     [Rect(270, 130, 60, 50) EXCEPT !.type = "triangle", !.strokeWidth = 2] >>

HouseTemplate ==
  << Stroke(Rect(220, 160, 160, 120), 3),
     [Rect(220, 90, 160, 70) EXCEPT !.type = "triangle", !.strokeWidth = 3],
     Stroke(Rect(285, 230, 30, 50), 2), Stroke(Rect(240, 190, 35, 35), 2) >>

AppleTemplate ==
  << Stroke(Circle(300, 260, 40), 2), Stroke(Line(300, 220, 300, 200), 3),
     Stroke(Circle(290, 245, 6), 2), Stroke(Circle(310, 245, 6), 2) >>

\* The sun's eight rays start and end on circles of radius 85 and 120 around
\* (300,250) at multiples of 45 degrees; the diagonal ones are rounded to the
\* quarter pixel (85 cos 45 = 60.10, 120 cos 45 = 84.85).
SunRay(sx4, sy4, ex4, ey4) ==
  [Line(0, 0, 0, 0) EXCEPT !.x = Px(300) + sx4, !.y = Px(250) + sy4,
                           !.x2 = Px(300) + ex4, !.y2 = Px(250) + ey4,
                           !.strokeWidth = 3]

SunTemplate ==
  << Stroke(Circle(300, 250, 80), 2),
     SunRay(0, -340, 0, -480), SunRay(240, -240, 339, -339),
     SunRay(340, 0, 480, 0), SunRay(240, 240, 339, 339),
     SunRay(0, 340, 0, 480), SunRay(-240, 240, -339, 339),
     SunRay(-340, 0, -480, 0), SunRay(-240, -240, -339, -339) >>

\* shapes.some(s => s.type === t): the callback reads s.type of every entry
\* up to the first match, and throws on a null entry met before it.
SomeThrows(shapes, t) ==
  \E i \in DOMAIN shapes :
     /\ shapes[i].type = "null"
     /\ \A j \in 1..(i - 1) : shapes[j].type # t

maybeApplyTemplate(command, shapes) ==
  LET hit(name, tmpl) == [thrown |-> FALSE, applied |-> TRUE,
                          templateName |-> name, shapes |-> tmpl]
  IN IF SomeThrows(shapes, "circle") \/ SomeThrows(shapes, "line")
     THEN [thrown |-> TRUE, applied |-> FALSE, templateName |-> "", shapes |-> shapes]
     ELSE IF Includes(command, "smile") \/ Includes(command, "smiley")
     THEN hit("smiley", SmileyTemplate)
     ELSE IF Includes(command, "sad face") THEN hit("sad", SadTemplate)
     ELSE IF Includes(command, "sun") THEN hit("sun", SunTemplate)
     ELSE IF Includes(command, "tree") THEN hit("tree", TreeTemplate)
     ELSE IF Includes(command, "house") THEN hit("house", HouseTemplate)
     ELSE IF Includes(command, "apple") THEN hit("apple", AppleTemplate)
     ELSE [thrown |-> FALSE, applied |-> FALSE, templateName |-> "", shapes |-> shapes]

\* ------------------------------------------------------------------ state
VARIABLES
  variant,      \* which revision of the routes runs: "evict" or "delta"
  serial,       \* TRUE: clients send a command only when none is in flight
  connected,    \* TRUE: the observed client's socket is open
  faults,       \* which record-store calls may fail: "insert" (createShape) or "any";
                \* "actions": as "insert", with the oracle answering every action string
  oracle,       \* one call of interpretCommand: program counter, response, result
  bench,        \* one run of the draw case's pure steps: template, normalizer
  store,        \* the shapes table, in createdAt (insertion) order
  nextId,       \* ids handed out so far
  failures,     \* record-store failures injected so far
  cmd,          \* per message handler: program counter and locals
  hist,         \* per message handler: what it has done (history)
  writeLog,     \* the handlers' canvas writes (who, what), in the order they took effect
  viewerShapes, \* a connected client's `shapes` state (ids, in order)
  viewerQueue,  \* messages sent to that client and not yet handled
  reader,       \* a get_state request: program counter and snapshot
  reads         \* number of get_state requests so far

vars == <<variant, serial, connected, faults, oracle, bench, store, nextId, failures, cmd, hist, writeLog,
          viewerShapes, viewerQueue, reader, reads>>

Cmds == 1..MaxCmds

Ids(shapes) == [i \in DOMAIN shapes |-> shapes[i].id]

SeqToSet(q) == {q[i] : i \in DOMAIN q}

\* ------------------------------------------------------------ record store
createShape(s, shape, id) == Append(s, [shape EXCEPT !.id = id])

\* A delete that removes nothing.
deleteNothing(s, id) == s

RECURSIVE deleteShape(_, _)
deleteShape(s, id) ==
  IF s = <<>> THEN <<>>
  ELSE IF Head(s).id = id THEN deleteShape(Tail(s), id)
  ELSE <<Head(s)>> \o deleteShape(Tail(s), id)

\* A clear that leaves the newest row.
clearOlder(s) == IF s = <<>> THEN <<>> ELSE <<s[Len(s)]>>

\* this.shapes.clear() / db.delete(shapes): no row is left, whatever there was.
clearShapes(s) == <<>>

\* ------------------------------------------------------------ oracle texts
\* A text is a TLA+ string, one character per element.  The character ^
\* stands for the backtick.  The scans below jump from one character of
\* interest to the next instead of visiting every character.
StartsWith(s, p) == Len(s) >= Len(p) /\ SubSeq(s, 1, Len(p)) = p

Drop(s, n) == SubSeq(s, n + 1, Len(s))

CharAt(s, j) == SubSeq(s, j, j)

\* The least member of a set of positions; 0 when there is none.
FirstAt(S) == IF S = {} THEN 0 ELSE SetMin(S)

\* The number of leading (trailing) characters of s that are in set.
LeadLen(s, set) == SetMin({i \in 0..Len(s) : i = Len(s) \/ CharAt(s, i + 1) \notin set})

TrailLen(s, set) == SetMin({i \in 0..Len(s) : i = Len(s) \/ CharAt(s, Len(s) - i) \notin set})

\* s.indexOf(p), 1-based; 0 when there is none.
IndexOf(s, p) == FirstAt({i \in 1..Len(s) : StartsWith(Drop(s, i - 1), p)})

Alphabet == "abcdefghijklmnopqrstuvwxyzABCDEFGHIJKLMNOPQRSTUVWXYZ"

\* [a-zA-Z]
Letters == {CharAt(Alphabet, i) : i \in 1..Len(Alphabet)}

Digits == {"0", "1", "2", "3", "4", "5", "6", "7", "8", "9"}

\* \s, for the characters the texts contain.
Spaces == {" ", "\t", "\n", "\r", "\f"}

\* [a-zA-Z]*
DropLetters(s) == Drop(s, LeadLen(s, Letters))

\* \n?
DropNewline(s) == IF StartsWith(s, "\n") THEN Tail(s) ELSE s

\* \s*
DropSpaces(s) == Drop(s, LeadLen(s, Spaces))

\* .* : up to the end of the line.
DropLine(s) ==
  Drop(s, SetMin({i \in 0..Len(s) : i = Len(s) \/ CharAt(s, i + 1) \in {"\n", "\r"}}))

\* text.replace(/```[a-zA-Z]*\n?/g, '')
RECURSIVE stripFences(_)
RECURSIVE stripFencesAt(_, _)
stripFences(s) == stripFencesAt(s, IndexOf(s, "^^^"))

stripFencesAt(s, i) ==
  IF i = 0 THEN s
  ELSE SubSeq(s, 1, i - 1) \o stripFences(DropNewline(DropLetters(Drop(s, i + 2))))

\* cleaned.replace(/```/g, '')
RECURSIVE stripTicks(_)
RECURSIVE stripTicksAt(_, _)
stripTicks(s) == stripTicksAt(s, IndexOf(s, "^^^"))

stripTicksAt(s, i) ==
  IF i = 0 THEN s ELSE SubSeq(s, 1, i - 1) \o stripTicks(Drop(s, i + 2))

\* \s*\/\/.*(?=\n|$) matches at the head of s.
CommentAt(s) ==
  /\ StartsWith(DropSpaces(s), "//")
  /\ (DropLine(DropSpaces(s)) = "" \/ StartsWith(DropLine(DropSpaces(s)), "\n"))

\* cleaned.replace(/(^|\n)\s*\/\/.*(?=\n|$)/g, '$1'); atStart: ^ matches here.
RECURSIVE stripComments(_, _)
RECURSIVE stripCommentsAt(_, _)
stripComments(s, atStart) ==
  IF atStart /\ CommentAt(s) THEN stripComments(DropLine(DropSpaces(s)), FALSE)
  ELSE stripCommentsAt(s, FirstAt({i \in 1..Len(s) :
                                     CharAt(s, i) = "\n" /\ CommentAt(Drop(s, i))}))

stripCommentsAt(s, i) ==
  IF i = 0 THEN s
  ELSE SubSeq(s, 1, i) \o stripComments(DropLine(DropSpaces(Drop(s, i))), FALSE)

\* cleaned.replace(/,\s*(\]|\})/g, '$1')
RECURSIVE stripTrailingCommas(_)
RECURSIVE stripTrailingCommasAt(_, _)
stripTrailingCommas(s) ==
  stripTrailingCommasAt(s, FirstAt({i \in 1..Len(s) :
                                      /\ CharAt(s, i) = ","
                                      /\ \/ StartsWith(DropSpaces(Drop(s, i)), "]")
                                         \/ StartsWith(DropSpaces(Drop(s, i)), "}")}))

stripTrailingCommasAt(s, i) ==
  IF i = 0 THEN s
  ELSE SubSeq(s, 1, i - 1) \o stripTrailingCommas(DropSpaces(Drop(s, i)))

\* String.prototype.trim
trim(s) == SubSeq(s, LeadLen(s, Spaces) + 1, Len(s) - TrailLen(s, Spaces))

sanitizeAiResponse(text) ==
  trim(stripTrailingCommas(stripComments(stripTicks(stripFences(text)), TRUE)))

\* -------------------------------------------------------------- JSON.parse
\* A JSON value: k is its kind ("obj", "arr", "str", "num", "lit",
\* "undefined"), s the string, number or literal as written (escapes of a
\* string resolved), items the members of an object or the elements of an
\* array, key the name under which a member sits in its object.
Val(k, s, items) == [k |-> k, key |-> "", s |-> s, items |-> items]

Str(s) == Val("str", s, <<>>)

Arr(items) == Val("arr", "", items)

Obj(items) == Val("obj", "", items)

Undefined == Val("undefined", "", <<>>)

\* The outcome of parsing a prefix: the value and the text after it.
Parsed(v, rest) == [ok |-> TRUE, val |-> v, rest |-> rest]

SyntaxError == [ok |-> FALSE, val |-> Undefined, rest |-> ""]

\* JSON whitespace.
skipWs(s) == Drop(s, LeadLen(s, {" ", "\t", "\n", "\r"}))

\* obj[key] = v: a repeated name replaces the earlier member's value.
Put(items, key, v) ==
  IF \E i \in DOMAIN items : items[i].key = key
  THEN [i \in DOMAIN items |-> IF items[i].key = key THEN [v EXCEPT !.key = key]
                                ELSE items[i]]
  ELSE Append(items, [v EXCEPT !.key = key])

\* obj[key]; undefined when obj is not an object or has no such member.
Get(obj, key) ==
  IF obj.k = "obj" /\ \E i \in DOMAIN obj.items : obj.items[i].key = key
  THEN [obj.items[CHOOSE i \in DOMAIN obj.items : obj.items[i].key = key]
          EXCEPT !.key = ""]
  ELSE Undefined

DigitsLen(s) == LeadLen(s, Digits)

\* The length of the number at the head of s (-? int frac?), 0 when there
\* is none.  The texts contain no exponents.
IntLen(s) ==
  IF StartsWith(s, "0") THEN 1 ELSE DigitsLen(s)

FracLen(s) ==
  IF StartsWith(s, ".") /\ DigitsLen(Tail(s)) > 0 THEN 1 + DigitsLen(Tail(s)) ELSE 0

UnsignedLen(s) == IF IntLen(s) = 0 THEN 0 ELSE IntLen(s) + FracLen(Drop(s, IntLen(s)))

NumberLen(s) ==
  IF StartsWith(s, "-")
  THEN (IF UnsignedLen(Tail(s)) = 0 THEN 0 ELSE 1 + UnsignedLen(Tail(s)))
  ELSE UnsignedLen(s)

\* The number of backslashes right before position j of s.
BackslashRun(s, j) ==
  SetMin({n \in 0..(j - 1) : n = j - 1 \/ CharAt(s, j - 1 - n) # "\\"})

\* With s the text after an opening quote: the position of the quote that
\* closes the string (the first one not consumed by an escape), 0 when
\* there is none.  Both scanners (JSON.parse and the block scan's inString /
\* escape flags) close a string there.
QuoteEnd(s) ==
  FirstAt({j \in 1..Len(s) : CharAt(s, j) = "\"" /\ BackslashRun(s, j) % 2 = 0})

\* The character an escape \c stands for; the texts contain no \b and no
\* \uXXXX.
Unescape(c) ==
  CASE c = "n" -> "\n"
    [] c = "t" -> "\t"
    [] c = "r" -> "\r"
    [] c = "f" -> "\f"
    [] OTHER -> c

\* The string a string literal's content stands for; not ok when it holds
\* a control character or an escape JSON does not have.
RECURSIVE Decode(_)
RECURSIVE DecodeAt(_, _)
Decode(content) == DecodeAt(content, IndexOf(content, "\\"))

DecodeAt(content, i) ==
  IF i = 0 THEN [ok |-> TRUE, s |-> content]
  ELSE IF i = Len(content)
          \/ CharAt(content, i + 1) \notin {"\"", "\\", "/", "n", "t", "r", "f"}
  THEN [ok |-> FALSE, s |-> ""]
  ELSE CHOOSE r \in {[ok |-> rest.ok,
                      s |-> SubSeq(content, 1, i - 1) \o Unescape(CharAt(content, i + 1))
                            \o rest.s] : rest \in {Decode(Drop(content, i + 1))}} : TRUE

RECURSIVE parseValue(_)
RECURSIVE parseValueAt(_)
RECURSIVE parseMember(_, _)
RECURSIVE memberColon(_, _)
RECURSIVE memberValue(_, _, _)
RECURSIVE afterMember(_, _)
RECURSIVE parseElement(_, _)
RECURSIVE afterElement(_, _)

\* s follows the opening quote and the string closes at position j.
parseStringAt(s, j, content) ==
  IF j = 0 \/ ~content.ok
     \/ \E i \in 1..(j - 1) : CharAt(s, i) \in {"\n", "\t", "\r", "\f"}
  THEN SyntaxError
  ELSE Parsed(Str(content.s), Drop(s, j))

parseString(s) ==
  CHOOSE r \in {parseStringAt(s, j, Decode(SubSeq(s, 1, j - 1))) : j \in {QuoteEnd(s)}} : TRUE

parseValue(s) == parseValueAt(skipWs(s))

parseValueAt(s) ==
  IF s = "" THEN SyntaxError
  ELSE IF Head(s) = "{"
  THEN (IF StartsWith(skipWs(Tail(s)), "}")
        THEN Parsed(Obj(<<>>), Tail(skipWs(Tail(s))))
        ELSE parseMember(skipWs(Tail(s)), <<>>))
  ELSE IF Head(s) = "["
  THEN (IF StartsWith(skipWs(Tail(s)), "]")
        THEN Parsed(Arr(<<>>), Tail(skipWs(Tail(s))))
        ELSE parseElement(Tail(s), <<>>))
  ELSE IF Head(s) = "\"" THEN parseString(Tail(s))
  ELSE IF StartsWith(s, "true") THEN Parsed(Val("lit", "true", <<>>), Drop(s, 4))
  ELSE IF StartsWith(s, "false") THEN Parsed(Val("lit", "false", <<>>), Drop(s, 5))
  ELSE IF StartsWith(s, "null") THEN Parsed(Val("lit", "null", <<>>), Drop(s, 4))
  ELSE IF NumberLen(s) > 0
  THEN Parsed(Val("num", SubSeq(s, 1, NumberLen(s)), <<>>), Drop(s, NumberLen(s)))
  ELSE SyntaxError

\* "name" : value, with s at the name.
parseMember(s, items) ==
  IF ~StartsWith(s, "\"") THEN SyntaxError
  ELSE CHOOSE r \in {memberColon(name, items) : name \in {parseString(Tail(s))}} : TRUE

memberColon(name, items) ==
  IF ~name.ok \/ ~StartsWith(skipWs(name.rest), ":") THEN SyntaxError
  ELSE CHOOSE r \in {memberValue(name.val.s, v, items) :
                       v \in {parseValue(Tail(skipWs(name.rest)))}} : TRUE

memberValue(name, v, items) ==
  IF ~v.ok THEN SyntaxError ELSE afterMember(skipWs(v.rest), Put(items, name, v.val))

afterMember(s, items) ==
  IF StartsWith(s, ",") THEN parseMember(skipWs(Tail(s)), items)
  ELSE IF StartsWith(s, "}") THEN Parsed(Obj(items), Tail(s))
  ELSE SyntaxError

parseElement(s, items) ==
  CHOOSE r \in {IF ~v.ok THEN SyntaxError
                ELSE afterElement(skipWs(v.rest), Append(items, v.val)) :
                  v \in {parseValue(s)}} : TRUE

afterElement(s, items) ==
  IF StartsWith(s, ",") THEN parseElement(Tail(s), items)
  ELSE IF StartsWith(s, "]") THEN Parsed(Arr(items), Tail(s))
  ELSE SyntaxError

\* JSON.parse(text): the value, or a SyntaxError when the text is not
\* exactly one JSON value.
JSONparse(text) ==
  CHOOSE r \in {IF v.ok /\ skipWs(v.rest) = "" THEN Parsed(v.val, "") ELSE SyntaxError :
                  v \in {parseValue(text)}} : TRUE

\* ------------------------------------------------------- block extraction
\* The next quote or brace of text at or after j; 0 when there is none.
NextMark(text, j) == FirstAt({i \in j..Len(text) : CharAt(text, i) \in {"\"", "{", "}"}})

RECURSIVE extractFrom(_, _, _)
RECURSIVE extractScan(_, _, _, _, _)
RECURSIVE extractMark(_, _, _, _, _)
RECURSIVE extractString(_, _, _, _, _, _)
RECURSIVE extractClose(_, _, _, _, _)

\* The while loop with i and the blocks found so far: start is the next
\* opening brace.
extractFrom(text, i, blocks) ==
  IF i > Len(text) \/ IndexOf(Drop(text, i - 1), "{") = 0 THEN blocks
  ELSE extractScan(text, i - 1 + IndexOf(Drop(text, i - 1), "{"),
                   i - 1 + IndexOf(Drop(text, i - 1), "{"), 0, blocks)

\* The for loop at j, outside a string: on to the next quote or brace.
\* Running off the end of the text ends the extraction (the last iteration
\* sets i to text.length).
extractScan(text, start, j, depth, blocks) ==
  extractMark(text, start, NextMark(text, j), depth, blocks)

extractMark(text, start, j, depth, blocks) ==
  IF j = 0 THEN blocks
  ELSE IF CharAt(text, j) = "\""
  THEN extractString(text, start, j, QuoteEnd(Drop(text, j)), depth, blocks)
  ELSE IF CharAt(text, j) = "{" THEN extractScan(text, start, j + 1, depth + 1, blocks)
  ELSE IF depth - 1 = 0
  THEN extractClose(text, start, j, JSONparse(SubSeq(text, start, j)), blocks)
  ELSE extractScan(text, start, j + 1, depth - 1, blocks)

\* inString from the quote at j to the quote that closes it, q characters on.
extractString(text, start, j, q, depth, blocks) ==
  IF q = 0 THEN blocks ELSE extractScan(text, start, j + q + 1, depth, blocks)

\* depth is back to 0 at j: the candidate is pushed and the scan restarts
\* after it, or (catch) the for loop goes on from j + 1 with the same start.
extractClose(text, start, j, obj, blocks) ==
  IF obj.ok THEN extractFrom(text, j + 1, Append(blocks, obj.val))
  ELSE extractScan(text, start, j + 1, 0, blocks)

extractJsonBlocks(text) == extractFrom(text, 1, <<>>)

NotFound == [found |-> FALSE, text |-> ""]

RECURSIVE findFrom(_, _)
RECURSIVE findScan(_, _, _, _)
RECURSIVE findMark(_, _, _, _)
RECURSIVE findString(_, _, _, _, _)

\* The while loop with i: start is the next opening brace.
findFrom(text, i) ==
  IF i > Len(text) \/ IndexOf(Drop(text, i - 1), "{") = 0 THEN NotFound
  ELSE findScan(text, i - 1 + IndexOf(Drop(text, i - 1), "{"),
                i - 1 + IndexOf(Drop(text, i - 1), "{"), 0)

findScan(text, start, j, depth) == findMark(text, start, NextMark(text, j), depth)

\* Running off the end of the text: i = start + 1.
findMark(text, start, j, depth) ==
  IF j = 0 THEN findFrom(text, start + 1)
  ELSE IF CharAt(text, j) = "\""
  THEN findString(text, start, j, QuoteEnd(Drop(text, j)), depth)
  ELSE IF CharAt(text, j) = "{" THEN findScan(text, start, j + 1, depth + 1)
  ELSE IF depth - 1 = 0 THEN [found |-> TRUE, text |-> SubSeq(text, start, j)]
  ELSE findScan(text, start, j + 1, depth - 1)

findString(text, start, j, q, depth) ==
  IF q = 0 THEN findFrom(text, start + 1) ELSE findScan(text, start, j + q + 1, depth)

findFirstJsonObject(text) == findFrom(text, 1)

\* ------------------------------------------------------- interpretCommand
\* v || d
IsZero(s) == \A i \in 1..Len(s) : CharAt(s, i) \in {"0", "-", "."}

Truthy(v) ==
  ~(\/ v.k = "undefined"
    \/ v.k = "lit" /\ v.s \in {"null", "false"}
    \/ v.k = "str" /\ v.s = ""
    \/ v.k = "num" /\ IsZero(v.s))

OrElse(v, d) == IF Truthy(v) THEN v ELSE d

\* What interpretCommand returns on the canvas path; error is "" when the
\* field is absent.
Interpretation(action, shapes, message, error) ==
  [action |-> action, shapes |-> shapes, message |-> message, error |-> error]

\* The outer catch: the oracle call failed or answered nothing.
ApiFailure(reason) ==
  Interpretation(Str("draw"), Arr(<<>>),
                 Str("Sorry, I could not process your command at the moment."), reason)

\* The inner catch: the response is returned as the message.
Passthrough(response) ==
  Interpretation(Str("draw"), Arr(<<>>), Str(response), "Could not parse command structure")

\* JSON.parse(response) succeeded.
Direct(parsed) ==
  Interpretation(Get(parsed, "action"), OrElse(Get(parsed, "shapes"), Arr(<<>>)),
                 OrElse(Get(parsed, "message"), Str("Command processed")), "")

\* A merge that takes the actions in reverse.
RECURSIVE ActionsReversed(_)
ActionsReversed(blocks) ==
  IF blocks = <<>> THEN <<>>
  ELSE ActionsReversed(Tail(blocks))
       \o (IF Get(Head(blocks), "action").k = "str"
           THEN <<Get(Head(blocks), "action").s>> ELSE <<>>)

\* actions.push(block.action) for the blocks whose action is a string.
RECURSIVE Actions(_)
Actions(blocks) ==
  IF blocks = <<>> THEN <<>>
  ELSE (IF Get(Head(blocks), "action").k = "str"
        THEN <<Get(Head(blocks), "action").s>> ELSE <<>>) \o Actions(Tail(blocks))

\* actions.join('|')
RECURSIVE Join(_)
Join(strings) ==
  IF strings = <<>> THEN ""
  ELSE IF Len(strings) = 1 THEN strings[1]
  ELSE strings[1] \o "|" \o Join(Tail(strings))

\* mergedShapes.push(...block.shapes) for the blocks whose shapes is an array.
RECURSIVE MergedShapes(_)
MergedShapes(blocks) ==
  IF blocks = <<>> THEN <<>>
  ELSE (IF Get(Head(blocks), "shapes").k = "arr"
        THEN Get(Head(blocks), "shapes").items ELSE <<>>) \o MergedShapes(Tail(blocks))

\* if (typeof block.message === 'string') lastMessage = block.message
RECURSIVE LastMessage(_, _)
LastMessage(blocks, lastMessage) ==
  IF blocks = <<>> THEN lastMessage
  ELSE LastMessage(Tail(blocks),
                   IF Get(Head(blocks), "message").k = "str"
                   THEN Get(Head(blocks), "message").s ELSE lastMessage)

\* blocks.length > 0
Merged(blocks) ==
  Interpretation(IF Actions(blocks) = <<>> THEN Str("draw") ELSE Str(Join(Actions(blocks))),
                 Arr(MergedShapes(blocks)),
                 OrElse(Str(LastMessage(blocks, "")), Str("Command processed")), "")

\* Last resort: the first balanced {...} of the sanitized text, parsed.
LastResort(response, block) ==
  IF ~block.ok THEN Passthrough(response)
  ELSE Interpretation(OrElse(Get(block.val, "action"), Str("draw")),
                      OrElse(Get(block.val, "shapes"), Arr(<<>>)),
                      OrElse(Get(block.val, "message"), Str("Command processed")), "")

\* The catch (parseError) branch once the blocks are extracted.
FromBlocks(response, sanitized, blocks) ==
  IF blocks # <<>> THEN Merged(blocks)
  ELSE IF findFirstJsonObject(sanitized).found
  THEN LastResort(response, JSONparse(findFirstJsonObject(sanitized).text))
  ELSE Passthrough(response)

\* JSON.parse(response) returned, and reading parsed.action did not throw
\* (parsed is not null).
ParsesDirectly(parsed) == parsed.ok /\ ~(parsed.val.k = "lit" /\ parsed.val.s = "null")

\* The whole of interpretCommand for an oracle call that threw or answered
\* with content.
interpretCommand(threw, content) ==
  IF threw THEN ApiFailure("Connection error.")
  ELSE IF content = "" THEN ApiFailure("No response from AI model")
  ELSE CHOOSE i \in {IF ParsesDirectly(parsed) THEN Direct(parsed.val)
                     ELSE FromBlocks(content, sanitized, extractJsonBlocks(sanitized)) :
                       parsed \in {JSONparse(content)},
                       sanitized \in {sanitizeAiResponse(content)}} : TRUE

\* ------------------------------------------------------- oracle responses
\* Objects the oracle answers with.
ClearObject == "{\"action\":\"clear\",\"message\":\"Cleared\"}"

CircleObject ==
  "{\"action\":\"draw\",\"shapes\":[{\"type\":\"circle\",\"x\":100,\"y\":100,\"radius\":50}],"
  \o "\"message\":\"Drew a circle\"}"

\* A draw with an empty message.
QuietObject ==
  "{\"action\":\"draw\",\"shapes\":[{\"type\":\"line\",\"x\":0,\"y\":0,\"x2\":10,\"y2\":10}],"
  \o "\"message\":\"\"}"

\* A draw without a message.
MuteObject == "{\"action\":\"draw\",\"shapes\":[]}"

\* Messages that contain a comma before a bracket, a fence, quotes and braces.
ListObject == "{\"action\":\"draw\",\"shapes\":[],\"message\":\"Drew [circle, box, ]\"}"

FenceObject == "{\"action\":\"draw\",\"shapes\":[],\"message\":\"Use ^^^js for code\"}"

QuoteObject == "{\"action\":\"draw\",\"shapes\":[],\"message\":\"Say \\\"hi\\\" to {you}\"}"

PrettyObject == "{\n  \"action\": \"clear\",\n  \"message\": \"Cleared\"\n}"

Objects == {ClearObject, CircleObject, QuietObject, MuteObject, ListObject, FenceObject,
            QuoteObject, PrettyObject}

\* A block with balanced braces that is not JSON.
Oops == "{oops}"

\* A response: its text, the well-formed objects it was put together from,
\* and how they were wrapped.
Response(text, made, wrap) == [text |-> text, made |-> made, wrap |-> wrap]

Singles ==
  UNION {{Response(o, <<o>>, "bare"),
          Response("^^^json\n" \o o \o "\n^^^", <<o>>, "fence"),
          Response("^^^\n" \o o \o "^^^", <<o>>, "fence"),
          Response("Here you go: " \o o, <<o>>, "prose")} : o \in Objects}

Multis ==
  {Response(ClearObject \o CircleObject, <<ClearObject, CircleObject>>, "bare"),
   Response(ClearObject \o "\n" \o CircleObject, <<ClearObject, CircleObject>>, "bare"),
   Response("^^^json\n" \o ClearObject \o "\n" \o CircleObject \o "\n^^^",
            <<ClearObject, CircleObject>>, "fence"),
   Response(ClearObject \o "\n// then the drawing\n" \o CircleObject,
            <<ClearObject, CircleObject>>, "comment"),
   Response(CircleObject \o ClearObject, <<CircleObject, ClearObject>>, "bare"),
   Response(ClearObject \o QuietObject, <<ClearObject, QuietObject>>, "bare"),
   Response(ClearObject \o MuteObject, <<ClearObject, MuteObject>>, "bare"),
   Response(ClearObject \o CircleObject \o QuietObject,
            <<ClearObject, CircleObject, QuietObject>>, "bare"),
   Response(PrettyObject \o "\n" \o CircleObject, <<PrettyObject, CircleObject>>, "bare")}

Broken ==
  {Response(Oops \o CircleObject, <<CircleObject>>, "broken"),
   Response(ClearObject \o Oops \o CircleObject, <<ClearObject, CircleObject>>, "broken"),
   Response(CircleObject \o Oops, <<CircleObject>>, "broken"),
   Response(Oops, <<>>, "broken"),
   Response("{\"action\":\"draw\",\"shapes\":[],}", <<>>, "broken"),
   Response("{", <<>>, "broken"),
   Response("{ " \o ClearObject, <<ClearObject>>, "broken")}

NoObjects ==
  {Response("", <<>>, "none"),
   Response("I cannot draw that.", <<>>, "none"),
   Response("[]", <<>>, "none"),
   Response("42", <<>>, "none"),
   Response("null", <<>>, "none"),
   Response("\"ok\"", <<>>, "none")}

Responses == Singles \cup Multis \cup Broken \cup NoObjects

\* -------------------------------------------------------------- the oracle
\* What interpretCommand hands to executeCommand: the action string, split
\* on "|" and trimmed, and the shapes array.
NoRadius == [Circle(200, 200, 0) EXCEPT !.num = {"x", "y"}]

Hexagon == [Rect(0, 0, 100, 100) EXCEPT !.type = "hexagon"]

Requests ==
  { [text |-> "draw a circle", action |-> <<"draw">>, shapes |-> << Circle(100, 100, 50) >>],
    [text |-> "draw a circle", action |-> <<"clear", "draw">>,
     shapes |-> << Rect(0, 0, 100, 50), NoRadius, Line(0, 50, 100, 50) >>],
    [text |-> "draw a nice smiley", action |-> <<"clear", "draw">>, shapes |-> << >>],
    [text |-> "clear and draw a box", action |-> <<"clear", "draw">>,
     shapes |-> << Rect(0, 0, 100, 50), NoRadius, Line(0, 50, 100, 50) >>],
    [text |-> "", action |-> <<"clear", "draw">>, shapes |-> << Circle(100, 100, 50) >>],
    [text |-> "draw a circle", action |-> <<"modify", "draw">>,
     shapes |-> << NullEntry, Circle(100, 100, 50) >>],
    [text |-> "draw a circle", action |-> <<"draw">>,
     shapes |-> << Hexagon, Stroke(Line(0, 0, 100, 0), 50) >>],
    [text |-> "delete the drawing", action |-> <<"clear">>, shapes |-> << >>] }

\* The requests offered while commands overlap.
OverlapRequests ==
  { [text |-> "draw a circle", action |-> <<"draw">>, shapes |-> << Circle(100, 100, 50) >>],
    [text |-> "clear and draw a box", action |-> <<"clear", "draw">>,
     shapes |-> << Rect(0, 0, 100, 50), NoRadius, Line(0, 50, 100, 50) >>] }

\* An interpretation of the oracle as the handler takes it: error is ""
\* when the field is absent, typed says that the action is a string.
Answered(r) ==
  [text |-> r.text, action |-> r.action, shapes |-> r.shapes, error |-> "", typed |-> TRUE]

\* action.split('|'), each part trimmed (action.trim() in the switch).
RECURSIVE SplitBar(_)
RECURSIVE SplitBarAt(_, _)
SplitBar(s) == SplitBarAt(s, IndexOf(s, "|"))

SplitBarAt(s, i) ==
  IF i = 0 THEN <<trim(s)>> ELSE <<trim(SubSeq(s, 1, i - 1))>> \o SplitBar(Drop(s, i))

\* What interpretCommand hands over for a response that carries no shapes.
FromOracle(text, i) ==
  [text |-> text,
   action |-> IF i.action.k = "str" THEN SplitBar(i.action.s) ELSE <<>>,
   shapes |-> <<>>, error |-> i.error, typed |-> i.action.k = "str"]

\* The oracle call fails, answers nothing, answers in prose, with an array,
\* or with a block that is not JSON.
Degraded ==
  {FromOracle("draw a circle", interpretCommand(o[1], o[2])) :
     o \in {<<TRUE, "">>, <<FALSE, "">>, <<FALSE, "I cannot draw that.">>,
            <<FALSE, "[]">>, <<FALSE, Oops>>}}

\* The action names of the executor's switch and of the oracle's prompt.
ActionNames == {"draw", "clear", "delete", "modify", "select"}

\* One action, or two different ones in either order.
ActionLists ==
  {<<a>> : a \in ActionNames}
    \cup {p \in {<<a, b>> : a \in ActionNames, b \in ActionNames} : p[1] # p[2]}

\* A drawing request answered with each action string.
ActionRequests ==
  {[text |-> "draw a circle", action |-> SplitBar(Join(a)),
    shapes |-> << Circle(100, 100, 50) >>] : a \in ActionLists}

\* Canvases drawn by hand (POST /api/shapes) before the commands arrive.
TopHalf == Rect(0, 0, 800, 290)

BottomHalf == Rect(0, 310, 800, 290)

Dot == Circle(790, 590, 5)

Whole == Rect(0, 0, 800, 600)

Corner == Rect(0, 0, 325, 290)

RECURSIVE WithIds(_, _)
WithIds(shapes, from) ==
  IF shapes = <<>> THEN <<>>
  ELSE <<[Head(shapes) EXCEPT !.id = from]>> \o WithIds(Tail(shapes), from + 1)

InitialCanvases ==
  { << >>, << Corner >>, << TopHalf, BottomHalf, Dot >>, << Dot, Whole >> }

\* --------------------------------------------------------- command executor
\* lc.includes('clear') || lc.includes('delete all') || /\bdelete\b/.test(lc)
asksClear(lc) ==
  Includes(lc, "clear") \/ Includes(lc, "delete all") \/ Includes(lc, "\\bdelete\\b")

\* const lc = String(originalCommand).toLowerCase()
explicitClear(text) == asksClear(toLowerCase(text))

\* Skip 'clear' unless explicitly requested; the guard runs only for a
\* truthy originalCommand.
FilterActions(text, action) ==
  IF text # "" /\ ~explicitClear(text)
  THEN LET keep(a) == a # "clear" IN SelectSeq(action, keep)
  ELSE action

ValidManual(s) ==
  /\ s.type \in ShapeTypes
  /\ IsNum(s, "x") /\ IsNum(s, "y")
  /\ s.type \in {"rectangle", "triangle"} => IsNum(s, "width") /\ IsNum(s, "height")
  /\ s.type \in {"circle", "star"} => IsNum(s, "radius")
  /\ s.type = "line" => IsNum(s, "x2") /\ IsNum(s, "y2")

\* insertShapeSchema: type is a string, x and y are required numbers, the
\* other columns are optional.
ValidZod(s) == s.type \in ShapeTypes /\ IsNum(s, "x") /\ IsNum(s, "y")

ValidShape(v, s) == IF v = "evict" THEN ValidManual(s) ELSE ValidZod(s)

\* The index of the first shape at or after k that passes validation
\* (the loop `continue`s over the others); 0 when there is none.
RECURSIVE NextValid(_, _, _)
NextValid(v, work, k) ==
  IF k > Len(work) THEN 0
  ELSE IF ValidShape(v, work[k]) THEN k
  ELSE NextValid(v, work, k + 1)

\* The synchronous part of the action loop: runs from the end of one action
\* to the next await.  Unknown actions only log.  A draw applies the
\* template and normalizes; a TypeError there is caught by executeCommand's
\* try, which ends the command's execution.
\* The action loop is over, by exhaustion or by a throw.
Thrown == [pc |-> "reply", acts |-> <<>>, work |-> <<>>]

\* case 'draw', from the template's result t to the placement's await.
Draw(t, shapes, rest) ==
  IF t.thrown \/ HasNull(IF t.applied THEN t.shapes ELSE shapes) THEN Thrown
  ELSE [pc |-> "place", acts |-> rest,
        work |-> normalizeShapesToCanvas(IF t.applied THEN t.shapes ELSE shapes)]

RECURSIVE NextAction(_, _, _)
NextAction(text, shapes, acts) ==
  IF acts = <<>> THEN Thrown
  ELSE IF Head(acts) = "draw"
  THEN Draw(IF text # "" THEN maybeApplyTemplate(toLowerCase(text), shapes)
            ELSE [thrown |-> FALSE, applied |-> FALSE, templateName |-> "",
                  shapes |-> shapes],
            shapes, Tail(acts))
  ELSE IF Head(acts) \in {"clear", "delete"}
  THEN [pc |-> "clear", acts |-> Tail(acts), work |-> <<>>]
  ELSE NextAction(text, shapes, Tail(acts))

\* The handler's locals on reaching the await that na names.
Goto(rec, na) == [rec EXCEPT !.pc = na.pc, !.acts = na.acts, !.work = na.work, !.idx = 0]

IdleCmd == [pc |-> "idle", text |-> "", action |-> <<>>, shapes |-> <<>>,
            acts |-> <<>>, work |-> <<>>, idx |-> 0, existing |-> <<>>,
            oldest |-> 0, snap |-> <<>>]

\* before/after: the canvas (ids) when the command started and when its
\* execution ended; canvas0: the shapes placement read first; scanned: the
\* shapes the last candidate scan ran against; group/placed: the group
\* handed to placement and the one it returned; returned: "scan" when a
\* candidate scan produced the result, "empty" when placeOrEvict gave up on
\* an empty canvas; evicted, created: ids the placement deleted and the draw
\* loop inserted; kept, failed: batch indexes whose createShape succeeded,
\* threw; removed: ids this command took off the canvas;
\* seen: snapshots a reader took while the command was executing;
\* voice: how a voice_data message went ("failed": the transcription call
\* threw, "silent": no speech, "heard").
\* threw: a record-store call other than createShape failed inside
\* executeCommand; aiMessage: the AI chat_message and command_executed were
\* broadcast; errorEvent: an error event was sent to the requesting client.
NoHist == [started |-> FALSE, before |-> <<>>, after |-> <<>>, canvas0 |-> <<>>,
           scanned |-> <<>>, group |-> <<>>, placed |-> <<>>, returned |-> "no",
           evicted |-> <<>>, created |-> <<>>, kept |-> <<>>, failed |-> {},
           cleared |-> FALSE,
           removed |-> {}, seen |-> {},
           threw |-> FALSE, aiMessage |-> FALSE, errorEvent |-> FALSE, voice |-> ""]

\* The draw case's locals before anything ran.
NoTemplate == [thrown |-> FALSE, applied |-> FALSE, templateName |-> "", shapes |-> <<>>]

IdleBench == [pc |-> "idle", command |-> "", shapes |-> <<>>, templated |-> NoTemplate,
              work |-> <<>>]

\* No call of interpretCommand under way.  via: the return statement that
\* produced the result; first: the last-resort block, when it was tried.
IdleOracle ==
  [pc |-> "idle", response |-> Response("", <<>>, ""), sanitized |-> "", blocks |-> <<>>,
   first |-> SyntaxError, via |-> "",
   result |-> Interpretation(Undefined, Undefined, Undefined, "")]

InitWith(ser, conn) ==
  /\ variant \in {"evict", "delta"}
  /\ serial = ser
  /\ connected = conn
  /\ faults = "insert"
  /\ oracle = IdleOracle
  /\ bench = IdleBench
  /\ \E c \in InitialCanvases :
       /\ store = WithIds(c, 1)
       /\ nextId = Len(c)
       /\ viewerShapes = Ids(WithIds(c, 1))
  /\ failures = 0
  /\ cmd = [c \in Cmds |-> IdleCmd]
  /\ hist = [c \in Cmds |-> NoHist]
  /\ writeLog = <<>>
  /\ viewerQueue = <<>>
  /\ reader = [pc |-> "idle", snap |-> <<>>]
  /\ reads = 0

\* The whole system in two environments: commands sent one at a time with
\* a client watching (and asking for the state), or commands overlapping
\* with no client watching.
Init == InitWith(TRUE, TRUE) \/ InitWith(FALSE, FALSE)

InFlight(c) == cmd[c].pc \notin {"idle", "done"}

\* After a draw's placement, or after a createShape at index k - 1: go on to
\* the next valid shape, or to the next action when the batch is exhausted.
ContinueAt(c, work, n) ==
  IF n > 0 THEN [cmd[c] EXCEPT !.pc = "create", !.work = work, !.idx = n]
  ELSE Goto(cmd[c], NextAction(cmd[c].text, cmd[c].shapes, cmd[c].acts))

Continue(c, work, k) == ContinueAt(c, work, NextValid(variant, work, k))

\* A record-store call may fail now.
CanFail == faults = "any" /\ failures < MaxFailures

\* A record-store call inside executeCommand rejects: its catch logs the
\* error and executeCommand returns.
Caught(c) ==
  /\ CanFail
  /\ failures' = failures + 1
  /\ cmd' = [cmd EXCEPT ![c] = Goto(cmd[c], Thrown)]
  /\ hist' = [hist EXCEPT ![c].threw = TRUE]
  /\ UNCHANGED <<variant, serial, connected, faults, oracle, bench, store, nextId, writeLog,
                 viewerShapes, viewerQueue, reader, reads>>

\* A catch that only logs.
catchAndLog(h) == h

\* The handler's catch: ws.send({ type: 'error', ... }) to the requesting
\* client (handleChatMessage's own catch, or the one of ws.on('message')).
catchAndReport(h) == [h EXCEPT !.errorEvent = TRUE]

\* The handler is over without the rest of handleChatMessage having run.
Abandoned(c, h) ==
  [h EXCEPT !.started = TRUE,
            !.before = IF h.started THEN @ ELSE Ids(store),
            !.after = IF cmd[c].pc \in {"idle", "reply"} THEN Ids(store) ELSE @]

\* A record-store call of handleChatMessage outside executeCommand rejects
\* (createChatMessage, the context's getShapes, the getShapes before
\* shapes_updated): the exception reaches the handler's catch.
Escaped(c) ==
  /\ CanFail
  /\ failures' = failures + 1
  /\ cmd' = [cmd EXCEPT ![c].pc = "done"]
  /\ hist' = [hist EXCEPT ![c] = catchAndReport(Abandoned(c, hist[c]))]
  /\ UNCHANGED <<variant, serial, connected, faults, oracle, bench, store, nextId, writeLog,
                 viewerShapes, viewerQueue, reader, reads>>

\* The interpretations offered to a handler: the oracle's answers, and
\* with faults the degraded ones.
Offered ==
  IF faults = "actions" THEN {Answered(r) : r \in ActionRequests}
  ELSE {Answered(r) : r \in (IF serial THEN Requests ELSE OverlapRequests)}
         \cup (IF faults = "any" THEN Degraded ELSE {})

\* if (interpretation.error) throw new Error(interpretation.error)
Refused(r) == variant = "delta" /\ r.error # ""

\* The handler's locals at executeCommand's first await; splitting an
\* action that is not a string throws inside executeCommand's try.
Begin(r) ==
  IF Refused(r) THEN [IdleCmd EXCEPT !.pc = "done", !.text = r.text]
  ELSE IF ~r.typed THEN Goto([IdleCmd EXCEPT !.text = r.text], Thrown)
  ELSE Goto([IdleCmd EXCEPT !.text = r.text, !.action = r.action, !.shapes = r.shapes],
            NextAction(r.text, r.shapes, FilterActions(r.text, r.action)))

\* handleChatMessage on a text of the interpretations offered, up to
\* executeCommand's first await.
Take(c, offered) ==
  \/ /\ \E r \in offered :
          /\ cmd' = [cmd EXCEPT ![c] = Begin(r)]
          /\ hist' = [hist EXCEPT ![c] =
                        IF Refused(r) THEN catchAndReport(Abandoned(c, @))
                        ELSE [@ EXCEPT !.started = TRUE, !.before = Ids(store)]]
     /\ UNCHANGED <<variant, serial, connected, faults, oracle, bench, store, nextId, failures, writeLog,
                    viewerShapes, viewerQueue, reader, reads>>
  \/ Escaped(c)

\* ws.on('message') -> handleChatMessage up to executeCommand's first await:
\* the user message is saved and broadcast, the oracle interprets the text,
\* executeCommand splits and filters the action list.
Start(c) ==
  /\ cmd[c].pc = "idle"
  /\ \A d \in Cmds : d < c => cmd[d].pc # "idle"
  /\ serial => \A d \in Cmds : ~InFlight(d)
  /\ Take(c, Offered)

\* A transcribeAudio without its catch.
transcribeAudioUncaught(failed, text) == [threw |-> failed, text |-> text]

\* transcribeAudio: the transcription's text, '' when there is none or when
\* the call throws.
transcribeAudio(failed, text) == [threw |-> FALSE, text |-> IF failed THEN "" ELSE text]

\* What the recordings say; "" is a recording without speech.
Spoken == {"", "draw a circle", "clear and draw a box"}

\* handleVoiceData after the transcription t: if (transcription) the text
\* goes on to handleChatMessage; an exception goes to the catch, which sends
\* an error event; otherwise nothing is done.
heard(c, t, how) ==
  /\ cmd' = [cmd EXCEPT ![c].pc = IF ~t.threw /\ t.text # "" THEN "heard" ELSE "done",
                         ![c].text = IF t.threw THEN "" ELSE t.text]
  /\ hist' = [hist EXCEPT ![c] =
                IF t.threw THEN catchAndReport([@ EXCEPT !.voice = how])
                ELSE [@ EXCEPT !.voice = how]]

\* ws.on('message') with voice_data -> handleVoiceData up to the end of
\* transcribeAudio, whose call to the transcription service may throw.
Transcribe(c) ==
  /\ cmd[c].pc = "idle"
  /\ \A d \in Cmds : d < c => cmd[d].pc # "idle"
  /\ serial => \A d \in Cmds : ~InFlight(d)
  /\ \E failed \in BOOLEAN, text \in Spoken :
       heard(c, transcribeAudio(failed, text),
             IF failed THEN "failed" ELSE IF text = "" THEN "silent" ELSE "heard")
  /\ UNCHANGED <<variant, serial, connected, faults, oracle, bench, store, nextId, failures,
                 writeLog, viewerShapes, viewerQueue, reader, reads>>

\* await handleChatMessage(ws, transcription, appType)
Hear(c) ==
  /\ cmd[c].pc = "heard"
  /\ Take(c, {r \in Offered : r.text = cmd[c].text})


\* wss.clients.forEach: a message reaches the observed client only while
\* its socket is open.
broadcast(q, m) == IF connected THEN Append(q, m) ELSE q

\* placeShape (delta) / the head of placeOrEvict (evict): read the canvas,
\* scan the candidates.
Place(c) ==
  /\ cmd[c].pc = "place"
  /\ \/ /\ \E placed \in {placeCompositeWithoutOverlap(cmd[c].work, store)} :
             /\ cmd' = [cmd EXCEPT ![c] =
                          IF variant = "delta" \/ ~anyOverlap(placed, store)
                          THEN Continue(c, placed, 1)
                          ELSE [cmd[c] EXCEPT !.pc = "evRead", !.existing = store]]
             /\ hist' = [hist EXCEPT ![c].canvas0 = store, ![c].scanned = store,
                                     ![c].group = cmd[c].work, ![c].placed = placed,
                                     ![c].returned =
                                       IF variant = "delta" \/ ~anyOverlap(placed, store)
                                       THEN "scan" ELSE "no"]
        /\ UNCHANGED <<variant, serial, connected, faults, oracle, bench, store, nextId, failures, writeLog,
                       viewerShapes, viewerQueue, reader, reads>>
     \/ Caught(c)

\* The newest row instead of the oldest.
newestOf(existing) == existing[Len(existing)]

\* const oldest = existing[0]
oldestOf(existing) == existing[1]

\* placeOrEvict, top of the loop: existing = await storage.getShapes();
\* if (existing.length === 0) return shapes; oldest = existing[0].
EvictRead(c) ==
  /\ cmd[c].pc = "evRead"
  /\ \/ /\ IF store = <<>>
           THEN /\ cmd' = [cmd EXCEPT ![c] = Continue(c, cmd[c].work, 1)]
                /\ hist' = [hist EXCEPT ![c].scanned = <<>>, ![c].placed = cmd[c].work,
                                        ![c].returned = "empty"]
           ELSE /\ cmd' = [cmd EXCEPT ![c].pc = "evDel", ![c].existing = store,
                                      ![c].oldest = oldestOf(store).id]
                /\ hist' = hist
        /\ UNCHANGED <<variant, serial, connected, faults, oracle, bench, store, nextId, failures, writeLog,
                       viewerShapes, viewerQueue, reader, reads>>
     \/ Caught(c)

\* await storage.deleteShape(oldest.id)
EvictDelete(c) ==
  /\ cmd[c].pc = "evDel"
  /\ \/ /\ store' = deleteShape(store, cmd[c].oldest)
        /\ cmd' = [cmd EXCEPT ![c].pc = "evAfter"]
        /\ hist' = [hist EXCEPT ![c].evicted = Append(@, cmd[c].oldest),
                                ![c].removed = @ \cup (SeqToSet(Ids(store)) \cap {cmd[c].oldest})]
        /\ writeLog' = Append(writeLog, [by |-> c, op |-> "delete"])
        /\ UNCHANGED <<variant, serial, connected, faults, oracle, bench, nextId, failures, viewerShapes, viewerQueue,
                       reader, reads>>
     \/ Caught(c)

\* after = await storage.getShapes(); rescan; return when it fits.
EvictAfter(c) ==
  /\ cmd[c].pc = "evAfter"
  /\ \/ /\ \E placed \in {placeCompositeWithoutOverlap(cmd[c].work, store)} :
             /\ cmd' = [cmd EXCEPT ![c] =
                          IF ~anyOverlap(placed, store) THEN Continue(c, placed, 1)
                          ELSE [cmd[c] EXCEPT !.pc = "evRead"]]
             /\ hist' = [hist EXCEPT ![c].scanned = store, ![c].placed = placed,
                                     ![c].returned =
                                       IF ~anyOverlap(placed, store) THEN "scan" ELSE "no"]
        /\ UNCHANGED <<variant, serial, connected, faults, oracle, bench, store, nextId, failures, writeLog,
                       viewerShapes, viewerQueue, reader, reads>>
     \/ Caught(c)

\* const validatedShapeData = { ...shapeData, color: ..., strokeWidth: shapeData.strokeWidth || 2 }
validatedShapeData(shapeData) == [shapeData EXCEPT !.strokeWidth = orDefault(@)]

\* await storage.createShape(validatedShapeData) for the shape at idx; the
\* call may throw, which the per-shape try/catch logs.  The delta revision
\* broadcasts shape_added for the new row.
CreateShape(c) ==
  /\ cmd[c].pc = "create"
  /\ \/ /\ store' = createShape(store, validatedShapeData(cmd[c].work[cmd[c].idx]), nextId + 1)
        /\ nextId' = nextId + 1
        /\ hist' = [hist EXCEPT ![c].created = Append(@, nextId + 1),
                                ![c].kept = Append(@, cmd[c].idx)]
        /\ writeLog' = Append(writeLog, [by |-> c, op |-> "create"])
        /\ viewerQueue' = IF variant = "delta"
                          THEN broadcast(viewerQueue, [type |-> "shape_added",
                                                       id |-> nextId + 1, shapes |-> <<>>])
                          ELSE viewerQueue
        /\ UNCHANGED failures
     \/ /\ serial
        /\ failures < MaxFailures
        /\ failures' = failures + 1
        /\ hist' = [hist EXCEPT ![c].failed = @ \cup {cmd[c].idx}]
        /\ UNCHANGED <<store, nextId, writeLog, viewerQueue>>
  /\ cmd' = [cmd EXCEPT ![c] = Continue(c, cmd[c].work, cmd[c].idx + 1)]
  /\ UNCHANGED <<variant, serial, connected, faults, oracle, bench, viewerShapes, reader, reads>>

\* case 'clear' / case 'delete': await storage.clearShapes(); the delta
\* revision broadcasts shapes_cleared.
ClearShapes(c) ==
  /\ cmd[c].pc = "clear"
  /\ \/ /\ store' = clearShapes(store)
        /\ cmd' = [cmd EXCEPT ![c] =
                     Goto(cmd[c], NextAction(cmd[c].text, cmd[c].shapes, cmd[c].acts))]
        /\ hist' = [hist EXCEPT ![c].cleared = TRUE,
                                ![c].removed = @ \cup SeqToSet(Ids(store))]
        /\ writeLog' = Append(writeLog, [by |-> c, op |-> "clear"])
        /\ viewerQueue' = IF variant = "delta"
                          THEN broadcast(viewerQueue, [type |-> "shapes_cleared", id |-> 0,
                                                       shapes |-> <<>>])
                          ELSE viewerQueue
        /\ UNCHANGED <<variant, serial, connected, faults, oracle, bench, nextId, failures, viewerShapes, reader, reads>>
     \/ Caught(c)

\* executeCommand has returned: the AI message is saved and broadcast with
\* command_executed.  The evict revision goes on to read the canvas for
\* shapes_updated.
Reply(c) ==
  /\ cmd[c].pc = "reply"
  /\ \/ /\ cmd' = [cmd EXCEPT ![c].pc = IF variant = "evict" THEN "snapshot" ELSE "done"]
        /\ hist' = [hist EXCEPT ![c].after = Ids(store), ![c].aiMessage = TRUE]
        /\ UNCHANGED <<variant, serial, connected, faults, oracle, bench, store, nextId, failures, writeLog,
                       viewerShapes, viewerQueue, reader, reads>>
     \/ Escaped(c)

\* const updatedShapes = await storage.getShapes()
Snapshot(c) ==
  /\ cmd[c].pc = "snapshot"
  /\ \/ /\ cmd' = [cmd EXCEPT ![c].pc = "publish", ![c].snap = Ids(store)]
        /\ UNCHANGED <<variant, serial, connected, faults, oracle, bench, store, nextId, failures, hist, writeLog,
                       viewerShapes, viewerQueue, reader, reads>>
     \/ Escaped(c)

\* broadcast({ type: 'shapes_updated', shapes: updatedShapes })
Publish(c) ==
  /\ cmd[c].pc = "publish"
  /\ cmd' = [cmd EXCEPT ![c].pc = "done"]
  /\ viewerQueue' = broadcast(viewerQueue, [type |-> "shapes_updated", id |-> 0,
                                            shapes |-> cmd[c].snap])
  /\ UNCHANGED <<variant, serial, connected, faults, oracle, bench, store, nextId, failures, hist, writeLog,
                 viewerShapes, reader, reads>>

\* ------------------------------------------------------------------ client
handleMessage(shapes, m) ==
  IF m.type \in {"initial_state", "shapes_updated"} THEN m.shapes
  ELSE IF m.type = "shape_created" THEN Append(shapes, m.id)
  ELSE IF m.type = "shape_deleted"
  THEN LET keep(i) == i # m.id IN SelectSeq(shapes, keep)
  ELSE IF m.type = "shapes_cleared" THEN <<>>
  ELSE shapes

Deliver ==
  /\ viewerQueue # <<>>
  /\ viewerShapes' = handleMessage(viewerShapes, Head(viewerQueue))
  /\ viewerQueue' = Tail(viewerQueue)
  /\ UNCHANGED <<variant, serial, connected, faults, oracle, bench, store, nextId, failures, cmd, hist, writeLog,
                 reader, reads>>

\* ----------------------------------------------------------------- readers
Executing(c) == cmd[c].pc \in {"place", "evRead", "evDel", "evAfter", "create", "clear"}

\* get_state -> sendCanvasState: const shapes = await storage.getShapes()
ReadState ==
  /\ connected
  /\ reader.pc = "idle"
  /\ reads < MaxReads
  /\ reads' = reads + 1
  /\ reader' = [pc |-> "send", snap |-> Ids(store)]
  /\ hist' = [c \in Cmds |-> IF Executing(c)
                             THEN [hist[c] EXCEPT !.seen = @ \cup {Ids(store)}]
                             ELSE hist[c]]
  /\ UNCHANGED <<variant, serial, connected, faults, oracle, bench, store, nextId, failures, cmd, writeLog,
                 viewerShapes, viewerQueue>>

\* ws.send({ type: 'initial_state', shapes, ... })
SendState ==
  /\ reader.pc = "send"
  /\ reader' = [pc |-> "idle", snap |-> <<>>]
  /\ viewerQueue' = Append(viewerQueue, [type |-> "initial_state", id |-> 0,
                                         shapes |-> reader.snap])
  /\ UNCHANGED <<variant, serial, connected, faults, oracle, bench, store, nextId, failures, cmd, hist, writeLog,
                 viewerShapes, reads>>

\* ------------------------------------------------------------- REST routes
\* Request bodies of POST /api/shapes; the last one fails the schema.
Bodies == {Dot, Circle(100, 100, 50), NullEntry}

restFrame == <<variant, serial, connected, faults, oracle, bench, failures, cmd, hist,
               viewerShapes, reader, reads>>

\* app.post('/api/shapes'): insertShapeSchema.parse(req.body), then
\* storage.createShape and broadcast shape_created; a body that fails the
\* schema is answered with 400.
PostShape ==
  /\ Len(writeLog) < MaxRest
  /\ \E body \in Bodies :
       IF ValidZod(body)
       THEN /\ store' = createShape(store, body, nextId + 1)
            /\ nextId' = nextId + 1
            /\ writeLog' = Append(writeLog, [by |-> 0, op |-> "create"])
            /\ viewerQueue' = broadcast(viewerQueue, [type |-> "shape_created", id |-> nextId + 1,
                                                      shapes |-> <<>>])
       ELSE UNCHANGED <<store, nextId, writeLog, viewerQueue>>
  /\ UNCHANGED restFrame

\* app.delete('/api/shapes/:id'): shape_deleted is broadcast when a row was
\* deleted, 404 otherwise.
DeleteShape ==
  /\ Len(writeLog) < MaxRest
  /\ \E id \in 1..nextId :
       IF id \in SeqToSet(Ids(store))
       THEN /\ store' = deleteShape(store, id)
            /\ writeLog' = Append(writeLog, [by |-> 0, op |-> "delete"])
            /\ viewerQueue' = broadcast(viewerQueue, [type |-> "shape_deleted", id |-> id,
                                                      shapes |-> <<>>])
       ELSE UNCHANGED <<store, writeLog, viewerQueue>>
  /\ UNCHANGED nextId
  /\ UNCHANGED restFrame

\* app.delete('/api/shapes'): storage.clearShapes and broadcast
\* shapes_cleared.
DeleteShapes ==
  /\ Len(writeLog) < MaxRest
  /\ store' = clearShapes(store)
  /\ writeLog' = Append(writeLog, [by |-> 0, op |-> "clear"])
  /\ viewerQueue' = broadcast(viewerQueue, [type |-> "shapes_cleared", id |-> 0,
                                            shapes |-> <<>>])
  /\ UNCHANGED nextId
  /\ UNCHANGED restFrame

\* ----------------------------------------------- interpretCommand, stepwise
serverVars == <<variant, serial, connected, faults, bench, store, nextId, failures, cmd, hist,
                writeLog, viewerShapes, viewerQueue, reader, reads>>

Return(via, result) == [oracle EXCEPT !.pc = "returned", !.via = via, !.result = result]

\* await groq.chat.completions.create(...): the call throws, or answers with
\* the response; then JSON.parse(response).
Complete ==
  /\ oracle.pc = "asked"
  /\ \/ oracle' = Return("api", ApiFailure("Connection error."))
     \/ oracle' =
          IF oracle.response.text = ""
          THEN Return("api", ApiFailure("No response from AI model"))
          ELSE IF ParsesDirectly(JSONparse(oracle.response.text))
          THEN Return("direct", Direct(JSONparse(oracle.response.text).val))
          ELSE [oracle EXCEPT !.pc = "sanitize"]
  /\ UNCHANGED serverVars

\* const sanitized = sanitizeAiResponse(response)
Sanitize ==
  /\ oracle.pc = "sanitize"
  /\ oracle' = [oracle EXCEPT !.pc = "extract",
                              !.sanitized = sanitizeAiResponse(oracle.response.text)]
  /\ UNCHANGED serverVars

\* const blocks = extractJsonBlocks(sanitized)
Extract ==
  /\ oracle.pc = "extract"
  /\ oracle' = [oracle EXCEPT !.pc = "merge", !.blocks = extractJsonBlocks(oracle.sanitized)]
  /\ UNCHANGED serverVars

\* The rest of the catch (parseError) branch.
Merge ==
  /\ oracle.pc = "merge"
  /\ oracle' =
       IF oracle.blocks # <<>>
       THEN Return("merge", Merged(oracle.blocks))
       ELSE IF findFirstJsonObject(oracle.sanitized).found
       THEN [Return(IF JSONparse(findFirstJsonObject(oracle.sanitized).text).ok
                    THEN "first" ELSE "passthrough",
                    FromBlocks(oracle.response.text, oracle.sanitized, oracle.blocks))
               EXCEPT !.first = JSONparse(findFirstJsonObject(oracle.sanitized).text)]
       ELSE Return("passthrough",
                   FromBlocks(oracle.response.text, oracle.sanitized, oracle.blocks))
  /\ UNCHANGED serverVars

\* The two helpers applied to a text on their own:
\* extractJsonBlocks(sanitizeAiResponse(text)).
SanitizeAndExtract ==
  /\ oracle.pc = "asked"
  /\ oracle' = [oracle EXCEPT
                  !.pc = "applied",
                  !.sanitized = sanitizeAiResponse(oracle.response.text),
                  !.blocks = extractJsonBlocks(sanitizeAiResponse(oracle.response.text))]
  /\ UNCHANGED serverVars

\* ------------------------------------------------- the draw case, step by step
\* The user's commands given to the draw case on its own: every trigger of
\* the template matcher, several at once, in capitals, and none.
Commands ==
  {"draw a smiley face", "Draw a SMILE", "draw a sad face", "draw the sun",
   "draw a tree", "draw a house", "draw an apple", "a sad face under the sun",
   "a house by a tree", "an apple tree", "a smiley sun", "sad smiley face",
   "draw a circle", "draw a box"}

\* The oracle's shape lists given to it.
Drawings ==
  { << >>,
    << Circle(100, 100, 50) >>,
    << Rect(0, 0, 100, 50) >>,
    << Rect(0, 0, 100, 50), NoRadius, Line(0, 50, 100, 50) >>,
    << Rect(0, 0, 800, 600), Circle(400, 300, 1) >>,
    << Line(0, 0, 100, 0) >>,
    << NullEntry, Circle(100, 100, 50) >> }

benchFrame == <<variant, serial, connected, faults, oracle, store, nextId, failures, cmd, hist,
                writeLog, viewerShapes, viewerQueue, reader, reads>>

\* const templated = maybeApplyTemplate(originalCommand.toLowerCase(), workingShapes);
\* a TypeError leaves the draw case.
ApplyTemplate ==
  /\ bench.pc = "given"
  /\ bench' = [bench EXCEPT
                 !.templated = maybeApplyTemplate(toLowerCase(bench.command), bench.shapes),
                 !.pc = IF maybeApplyTemplate(toLowerCase(bench.command), bench.shapes).thrown
                        THEN "thrown" ELSE "templated"]
  /\ UNCHANGED benchFrame

\* if (templated.applied) workingShapes = templated.shapes
workingShapes(b) == IF b.templated.applied THEN b.templated.shapes ELSE b.shapes

\* workingShapes = normalizeShapesToCanvas(workingShapes, { target: 300x300, center: 400,300 })
Normalize ==
  /\ bench.pc = "templated"
  /\ bench' = IF HasNull(workingShapes(bench)) THEN [bench EXCEPT !.pc = "thrown"]
              ELSE [bench EXCEPT !.pc = "normalized",
                                 !.work = normalizeShapesToCanvas(workingShapes(bench))]
  /\ UNCHANGED benchFrame

\* ----------------------------------------------------------- specification
\* One turn of placeOrEvict's loop.
Evict(c) ==
  \/ EvictRead(c)
  \/ EvictDelete(c)
  \/ EvictAfter(c)

Handle(c) ==
  \/ Place(c)
  \/ Evict(c)
  \/ CreateShape(c)
  \/ ClearShapes(c)
  \/ Reply(c)
  \/ Snapshot(c)
  \/ Publish(c)

Step(c) == Start(c) \/ Handle(c)

Server == \E c \in Cmds : Step(c)

Next ==
  \/ Server
  \/ Deliver
  \/ ReadState
  \/ SendState

Spec == Init /\ [][Next]_vars

\* The handlers alone, commands one at a time, nobody watching.
InitSeq == InitWith(TRUE, FALSE)

SpecSeq == InitSeq /\ [][Server]_vars

\* The handlers alone, commands overlapping.
InitConc == InitWith(FALSE, FALSE)

SpecConc == InitConc /\ [][Server]_vars

\* The record store answers every call and Node runs every continuation that
\* is ready: a handler inside placeOrEvict eventually takes its next step.
FairSeq == SpecSeq /\ \A c \in Cmds : WF_vars(Evict(c))

\* Every message is a voice_data message, sent when no command is in
\* flight, with a client watching.
InitVoice == InitWith(TRUE, TRUE)

Listen(c) ==
  \/ Transcribe(c)
  \/ Hear(c)
  \/ Handle(c)

NextVoice ==
  \/ \E c \in Cmds : Listen(c)
  \/ Deliver

SpecVoice == InitVoice /\ [][NextVoice]_vars

\* The handlers alone, commands one at a time, every record-store call
\* liable to fail and the oracle liable to answer badly.
InitFaulty ==
  /\ variant \in {"evict", "delta"}
  /\ serial = TRUE /\ connected = FALSE /\ faults = "any"
  /\ \E c \in InitialCanvases :
       /\ store = WithIds(c, 1)
       /\ nextId = Len(c)
       /\ viewerShapes = Ids(WithIds(c, 1))
  /\ failures = 0
  /\ cmd = [c \in Cmds |-> IdleCmd]
  /\ hist = [c \in Cmds |-> NoHist]
  /\ writeLog = <<>>
  /\ viewerQueue = <<>>
  /\ reader = [pc |-> "idle", snap |-> <<>>]
  /\ reads = 0
  /\ oracle = IdleOracle
  /\ bench = IdleBench

SpecFaulty == InitFaulty /\ [][Server]_vars

\* The REST routes (the same in both revisions) with a client connected,
\* which asks for the canvas state.
InitRest == InitWith(TRUE, TRUE)

NextRest ==
  \/ PostShape
  \/ DeleteShape
  \/ DeleteShapes
  \/ ReadState
  \/ SendState
  \/ Deliver

SpecRest == InitRest /\ [][NextRest]_vars

\* Commands sent one at a time, the oracle answering with every action
\* string.
InitActions ==
  /\ variant \in {"evict", "delta"}
  /\ serial = TRUE /\ connected = FALSE /\ faults = "actions"
  /\ \E c \in InitialCanvases :
       /\ store = WithIds(c, 1)
       /\ nextId = Len(c)
       /\ viewerShapes = Ids(WithIds(c, 1))
  /\ failures = 0
  /\ cmd = [c \in Cmds |-> IdleCmd]
  /\ hist = [c \in Cmds |-> NoHist]
  /\ writeLog = <<>>
  /\ viewerQueue = <<>>
  /\ reader = [pc |-> "idle", snap |-> <<>>]
  /\ reads = 0
  /\ oracle = IdleOracle
  /\ bench = IdleBench

SpecActions == InitActions /\ [][Server]_vars

\* A handler between its first and its last await has a continuation
\* pending.
Ready(c) == cmd[c].pc \notin {"idle", "done"}

\* Node runs every continuation that is ready: weak fairness of Handle(c),
\* written with Ready(c) for ENABLED <<Handle(c)>>_vars.
FairFaulty ==
  SpecFaulty /\ \A c \in Cmds : ([]<>~Ready(c) \/ []<><<Handle(c)>>_vars)

\* One call of interpretCommand on each response the oracle may give, the
\* server idle.
InitOracle ==
  /\ variant = "delta" /\ serial = TRUE /\ connected = FALSE /\ faults = "insert"
  /\ store = <<>> /\ nextId = 0 /\ failures = 0
  /\ cmd = [c \in Cmds |-> IdleCmd]
  /\ hist = [c \in Cmds |-> NoHist]
  /\ writeLog = <<>> /\ viewerShapes = <<>> /\ viewerQueue = <<>>
  /\ reader = [pc |-> "idle", snap |-> <<>>]
  /\ reads = 0
  /\ \E r \in Responses : oracle = [IdleOracle EXCEPT !.pc = "asked", !.response = r]
  /\ bench = IdleBench

NextOracle ==
  \/ Complete
  \/ Sanitize
  \/ Extract
  \/ Merge
  \/ SanitizeAndExtract

SpecOracle == InitOracle /\ [][NextOracle]_vars

\* The draw case's template and normalizer applied to each command and
\* each shape list, nothing else running.
InitCanvas ==
  /\ variant = "delta" /\ serial = TRUE /\ connected = FALSE /\ faults = "insert"
  /\ store = <<>> /\ nextId = 0 /\ failures = 0
  /\ cmd = [c \in Cmds |-> IdleCmd]
  /\ hist = [c \in Cmds |-> NoHist]
  /\ writeLog = <<>> /\ viewerShapes = <<>> /\ viewerQueue = <<>>
  /\ reader = [pc |-> "idle", snap |-> <<>>]
  /\ reads = 0
  /\ oracle = IdleOracle
  /\ \E command \in Commands, shapes \in Drawings :
       bench = [IdleBench EXCEPT !.pc = "given", !.command = command, !.shapes = shapes]

NextCanvas ==
  \/ ApplyTemplate
  \/ Normalize

SpecCanvas == InitCanvas /\ [][NextCanvas]_vars

\* ================================================================= claims
\* Vocabulary of the claims, stated without the engine's own operators.
Finished(c) == cmd[c].pc \in {"snapshot", "publish", "done"}

\* Two boxes are closer than the margin of 10 on both axes.
BoxesCollide(a, b) ==
  /\ a.minX - Px(10) <= b.maxX /\ b.minX <= a.maxX + Px(10)
  /\ a.minY - Px(10) <= b.maxY /\ b.minY <= a.maxY + Px(10)

ShapesCollide(s, e) ==
  getShapeBounds(s).ok /\ getShapeBounds(e).ok
  /\ BoxesCollide(getShapeBounds(s), getShapeBounds(e))

GroupCollides(group, existing) ==
  \E s \in SeqToSet(group) : \E e \in SeqToSet(existing) : ShapesCollide(s, e)

Grid == (1..4) \X (1..4)

\* The candidate centre of row r, column c, doubled: (2 c W / 5, 2 r H / 5).
Centre2(rc) == [x |-> (2 * rc[2] * Px(800)) \div 5, y |-> (2 * rc[1] * Px(600)) \div 5]

\* Row-major scan order: r outer, c inner.
Earlier(a, b) == a[1] < b[1] \/ (a[1] = b[1] /\ a[2] < b[2])

\* The group shifted as a whole so that its bounding-box centre is on rc.
ShiftedTo(group, rc) ==
  LET b == computeBounds(group)
      dx2 == Centre2(rc).x - (b.minX + b.maxX)
      dy2 == Centre2(rc).y - (b.minY + b.maxY)
  IN [i \in DOMAIN group |->
        [group[i] EXCEPT !.x = IF IsNum(group[i], "x") THEN @ + dx2 \div 2 ELSE @,
                         !.y = IF IsNum(group[i], "y") THEN @ + dy2 \div 2 ELSE @,
                         !.x2 = IF IsNum(group[i], "x2") THEN @ + dx2 \div 2 ELSE @,
                         !.y2 = IF IsNum(group[i], "y2") THEN @ + dy2 \div 2 ELSE @]]

FreeAt(group, existing, rc) == ~GroupCollides(ShiftedTo(group, rc), existing)

SomeFree(group, existing) == \E rc \in Grid : FreeAt(group, existing, rc)

\* The rows of the table that handler c inserted.
RowsOf(c) == {i \in DOMAIN store : store[i].id \in SeqToSet(hist[c].created)}

\* ------------------------------------------------------------------- C1
\* C1 (as claimed): a command whose text has no clear/delete keyword and
\* whose interpretation is "clear|draw" never runs the clear, and every shape
\* on the canvas before the command is on the canvas after it.
C1_ImplicitClearDropped ==
  \A c \in Cmds :
     (Finished(c) /\ ~explicitClear(cmd[c].text) /\ cmd[c].action = <<"clear", "draw">>)
       => /\ ~hist[c].cleared
          /\ SeqToSet(hist[c].before) \subseteq SeqToSet(hist[c].after)

FirstFit(h) ==
  \A free \in {{rc \in Grid : FreeAt(h.group, h.scanned, rc)}} :
     free # {}
       => \E rc \in free :
             /\ \A e \in free : e = rc \/ Earlier(rc, e)
             /\ h.placed = ShiftedTo(h.group, rc)

\* C3: every step in which a candidate scan returns, for a group that has
\* bounds, returns the group moved onto the first candidate (row-major) at
\* which it collides with nothing: it is collision-free there and every
\* earlier candidate collides.
C3_FirstFit ==
  [][\A c \in Cmds :
       (hist[c].returned # "scan" /\ hist'[c].returned = "scan"
        /\ computeBounds(hist'[c].group).ok)
         => FirstFit(hist'[c])]_vars

\* A scan that had to pass over colliding candidates before it found room.
C3_Witness ==
  \E c \in Cmds : \E rc \in Grid :
     /\ hist[c].returned = "scan" /\ computeBounds(hist[c].group).ok
     /\ rc # <<1, 1>>
     /\ hist[c].placed = ShiftedTo(hist[c].group, rc)
     /\ ~FreeAt(hist[c].group, hist[c].scanned, <<1, 1>>)

\* ------------------------------------------------------------------- C4
\* C4 (as claimed): once the commands sent have completed and the observed
\* client has handled every message sent to it (no get_state was asked), the
\* client's shape list is the record store's: same ids, same order.
AllQuiet ==
  /\ \A c \in Cmds : cmd[c].pc \in {"idle", "done"}
  /\ \E c \in Cmds : cmd[c].pc = "done"
  /\ viewerQueue = <<>> /\ reader.pc = "idle" /\ reads = 0

C4_ViewerConverges == (connected /\ AllQuiet) => viewerShapes = Ids(store)

\* ------------------------------------------------------------------- C5
\* C5 (as claimed): between two insertions or clears of one command there is
\* no insertion or clear of another command.
Draws == {"create", "clear"}

C5_WritesContiguous ==
  \A i \in DOMAIN writeLog : \A k \in DOMAIN writeLog : \A j \in i..k :
     (writeLog[i].by = writeLog[k].by
      /\ {writeLog[i].op, writeLog[j].op, writeLog[k].op} \subseteq Draws)
       => writeLog[j].by = writeLog[i].by

\* ------------------------------------------------------------------- C6
\* C6 (as claimed): a snapshot a reader took while a command was executing
\* is the canvas as it was before the command or as it is after it (stated
\* for the commands that carry a text).
C6_ConsistentReads ==
  \A c \in Cmds :
     (Finished(c) /\ cmd[c].text # "")
       => hist[c].seen \subseteq {hist[c].before, hist[c].after}

\* ------------------------------------------------------------------- C7
\* C7 (as claimed): every row a draw action inserted has a known type,
\* numeric x and y, the numeric fields of its type, and positive sizes.
WellFormed(s) ==
  /\ s.type \in {"rectangle", "circle", "line", "triangle", "star"}
  /\ {"x", "y"} \subseteq s.num
  /\ s.type \in {"rectangle", "triangle"}
       => {"width", "height"} \subseteq s.num /\ s.width > 0 /\ s.height > 0
  /\ s.type \in {"circle", "star"} => "radius" \in s.num /\ s.radius > 0
  /\ s.type = "line" => {"x2", "y2"} \subseteq s.num

C7_PersistedShapesValid ==
  \A c \in Cmds : \A i \in RowsOf(c) : WellFormed(store[i])

\* ------------------------------------------------------------------- C8
\* The batch a draw action works on: the template when one applies, the
\* oracle's shapes otherwise.
Batch(c) ==
  LET t == maybeApplyTemplate(cmd[c].text, cmd[c].shapes)
  IN IF cmd[c].text # "" /\ t.applied THEN t.shapes ELSE cmd[c].shapes

Drew(c) == "draw" \in SeqToSet(FilterActions(cmd[c].text, cmd[c].action))

\* The batch indexes that pass the revision's validation and whose
\* createShape did not fail, in batch order.
Expected(c) ==
  LET ok(i) == ValidShape(variant, Batch(c)[i]) /\ i \notin hist[c].failed
  IN SelectSeq([i \in 1..Len(Batch(c)) |-> i], ok)

\* C8 (as claimed): when a command with a draw action has completed, the
\* shapes it persisted are exactly the valid shapes of its batch whose
\* createShape did not fail, in batch order.
C8_BestEffortBatch ==
  \A c \in Cmds :
     (Finished(c) /\ Drew(c))
       => hist[c].kept = Expected(c) /\ Len(hist[c].created) = Len(hist[c].kept)

\* ------------------------------------------------------------------- C9
InEviction(c) == cmd[c].pc \in {"evRead", "evDel", "evAfter"}

\* C9: a handler inside placeOrEvict's loop eventually leaves it with a
\* result; the step from the delete to the rescan removes exactly one row;
\* after a rescan the loop goes round again exactly when no candidate is
\* collision-free, and at its top it goes on to delete exactly when the
\* canvas is not empty.
C9_EvictionTerminates ==
  /\ \A c \in Cmds : InEviction(c) ~> (~InEviction(c) /\ hist[c].returned # "no")
  /\ [][\A c \in Cmds :
          /\ (cmd[c].pc = "evDel" /\ cmd'[c].pc = "evAfter")
               => Len(store') = Len(store) - 1
          /\ (cmd[c].pc = "evAfter" /\ cmd'[c].pc # "evAfter")
               => (cmd'[c].pc = "evRead" <=> ~SomeFree(cmd[c].work, store))
          /\ (cmd[c].pc = "evRead" /\ cmd'[c].pc # "evRead")
               => (cmd'[c].pc = "evDel" <=> store # <<>>)]_vars

\* placeOrEvict returned a scan's result after going round the loop twice.
C9_Witness ==
  \E c \in Cmds : Len(hist[c].evicted) >= 2 /\ hist[c].returned = "scan"

\* ------------------------------------------------------------------ C10
\* C10: with commands one at a time, the ids a run of placeOrEvict deleted,
\* in the order it deleted them, are a prefix of the canvas it read first
\* (insertion order); none of them is on the canvas any more, and while the
\* command is executing the rest of that canvas still is.
C10_OldestFirst ==
  \A c \in Cmds :
     /\ Len(hist[c].evicted) <= Len(hist[c].canvas0)
     /\ hist[c].evicted = SubSeq(Ids(hist[c].canvas0), 1, Len(hist[c].evicted))
     /\ SeqToSet(hist[c].evicted) \cap SeqToSet(Ids(store)) = {}
     /\ Executing(c) =>
          (SeqToSet(Ids(hist[c].canvas0)) \ SeqToSet(hist[c].evicted))
            \subseteq SeqToSet(Ids(store))

\* A run that evicted the oldest shape and left two newer ones in place.
C10_Witness ==
  \E c \in Cmds :
     /\ Len(hist[c].evicted) = 1 /\ Len(hist[c].canvas0) = 3
     /\ hist[c].returned = "scan"

\* ------------------------------------------------------------------ C11
\* C11 (as claimed): when placeOrEvict returns after deleting rows until the
\* canvas is empty, the group it returns is the group it was given,
\* untranslated.
C11_ExhaustedUntranslated ==
  \A c \in Cmds :
     (hist[c].returned # "no" /\ hist[c].evicted # <<>> /\ hist[c].scanned = <<>>)
       => hist[c].placed = hist[c].group

\* ------------------------------------------------------------------ C12
\* A shape the no-eviction revision's draw loop lets through: a known type
\* and numeric x and y.
Insertable(s) ==
  s.type \in {"rectangle", "circle", "line", "triangle", "star"} /\ {"x", "y"} \subseteq s.num

\* The row of the table with the given id.
RowOf(id) == store[CHOOSE i \in DOMAIN store : store[i].id = id]

\* The no-eviction placement of command c found every candidate colliding.
Crowded(c) ==
  /\ variant = "delta" /\ hist[c].returned = "scan"
  /\ computeBounds(hist[c].group).ok
  /\ ~SomeFree(hist[c].group, hist[c].canvas0)

\* C12: in the no-eviction revision, when every one of the 16 candidates
\* collides, the placement step returns the group as it was passed in and
\* leaves the canvas as it was; the command deletes nothing, and once it has
\* completed it has inserted, in order and with the coordinates unchanged,
\* every shape of the group that the draw loop lets through and whose
\* insertion did not fail.
C12_NoEvictionFallback ==
  /\ [][\A c \in Cmds :
          (variant = "delta" /\ cmd[c].pc = "place" /\ cmd'[c].pc # "place"
           /\ computeBounds(cmd[c].work).ok /\ ~SomeFree(cmd[c].work, store))
            => (hist'[c].placed = cmd[c].work /\ store' = store)]_vars
  /\ [](\A c \in Cmds :
          (Crowded(c) /\ cmd[c].pc = "done")
            => /\ hist[c].evicted = <<>>
               /\ ~hist[c].cleared => hist[c].removed = {}
               /\ hist[c].kept =
                    SelectSeq([i \in 1..Len(hist[c].group) |-> i],
                              LAMBDA i : Insertable(hist[c].group[i])
                                         /\ i \notin hist[c].failed)
               /\ Len(hist[c].created) = Len(hist[c].kept)
               /\ \A k \in 1..Len(hist[c].created) :
                     hist[c].created[k] \in SeqToSet(Ids(store))
                       => RowOf(hist[c].created[k]) =
                            [hist[c].group[hist[c].kept[k]]
                               EXCEPT !.id = hist[c].created[k]])

\* A completed command of the no-eviction revision that found every
\* candidate colliding and persisted its group on top of the canvas.
C12_Witness ==
  \E c \in Cmds :
     /\ Crowded(c) /\ cmd[c].pc = "done"
     /\ hist[c].created # <<>> /\ hist[c].placed = hist[c].group
     /\ SeqToSet(hist[c].before) \subseteq SeqToSet(Ids(store))

\* ------------------------------------------------------------------ C13
\* The user's text contains an explicit clear/delete keyword.
AsksToClear(text) == text \in {"clear and draw a box", "delete the drawing"}

\* C13 (as claimed): a completed command whose interpretation lists a clear
\* ran the clear exactly when the user's text contains a clear/delete
\* keyword; when it does and the action is "clear|draw", the canvas after
\* the command holds exactly the rows the draw inserted, in order.
C13_ExplicitClearOrdered ==
  \A c \in Cmds :
     (Finished(c) /\ "clear" \in SeqToSet(cmd[c].action))
       => /\ hist[c].cleared <=> AsksToClear(cmd[c].text)
          /\ (AsksToClear(cmd[c].text) /\ cmd[c].action = <<"clear", "draw">>)
               => hist[c].after = hist[c].created

\* C14: a command during which a record-store call failed (getShapes or
\* deleteShape during placement, clearShapes, createShape) has created no
\* row and removed none, its requester has received an error event, and
\* its AI message and command_executed were not broadcast.
C14_StoreFailureIsFatal ==
  \A c \in Cmds :
    (cmd[c].pc = "done" /\ (hist[c].failed # {} \/ hist[c].threw))
      => /\ hist[c].created = <<>>
         /\ hist[c].removed = {}
         /\ hist[c].errorEvent
         /\ ~hist[c].aiMessage

\* C15: every chat_message that is taken up is handled to the end, and the
\* handler that has finished has sent its requester the AI chat_message
\* of the command or an error event, whatever the oracle answered and
\* whichever record-store call failed.
C15_EveryMessageAnswered ==
  \A c \in Cmds :
    /\ hist[c].started ~> cmd[c].pc = "done"
    /\ [](cmd[c].pc = "done" => (hist[c].aiMessage \/ hist[c].errorEvent))

\* One command ended in an error event alone, another was answered with
\* its AI message after a record-store call had failed under it.
C15_Witness ==
  \E c, d \in Cmds :
    /\ cmd[c].pc = "done" /\ hist[c].errorEvent /\ ~hist[c].aiMessage
    /\ cmd[d].pc = "done" /\ hist[d].threw /\ hist[d].aiMessage /\ ~hist[d].errorEvent

\* C16: when the oracle has answered with a text that holds no JSON object
\* at all (not one opening brace), interpretCommand returns action "draw",
\* no shapes, the whole text as the message, and an error.
C16_DegradedInterpretation ==
  (/\ oracle.pc = "returned"
   /\ oracle.via # "api"
   /\ IndexOf(oracle.response.text, "{") = 0)
    => /\ oracle.result.action = Str("draw")
       /\ oracle.result.shapes = Arr(<<>>)
       /\ oracle.result.message = Str(oracle.response.text)
       /\ oracle.result.error # ""

\* The balanced {...} pieces the texts below are put together from; none
\* is a prefix of another.
Pieces == Objects \cup {Oops}

\* The text is a run of pieces with nothing between them.
RECURSIVE MadeOfPieces(_)
MadeOfPieces(text) ==
  \/ text = ""
  \/ \E p \in Pieces : StartsWith(text, p) /\ MadeOfPieces(Drop(text, Len(p)))

\* Its top-level balanced substrings, in order.
RECURSIVE TopLevel(_)
TopLevel(text) ==
  IF text = "" THEN <<>>
  ELSE CHOOSE cut \in {<<p>> \o TopLevel(Drop(text, Len(p))) :
                         p \in {q \in Pieces : StartsWith(text, q)}} : TRUE

Accepted(piece) == JSONparse(piece).ok

\* C17: from a text made of several top-level balanced {...} substrings
\* extractJsonBlocks returns, in order, the value of each substring that
\* JSON.parse accepts, whether or not an earlier substring was rejected.
C17_KeepsEveryParseableBlock ==
  (/\ oracle.pc \in {"merge", "applied"}
   /\ MadeOfPieces(oracle.sanitized)
   /\ Len(TopLevel(oracle.sanitized)) >= 2)
    => oracle.blocks =
         [i \in 1..Len(SelectSeq(TopLevel(oracle.sanitized), Accepted)) |->
            JSONparse(SelectSeq(TopLevel(oracle.sanitized), Accepted)[i]).val]

\* The fields of a well-formed object of the response.
ActionOf(object) == Get(JSONparse(object).val, "action").s

ShapesOf(object) ==
  IF Get(JSONparse(object).val, "shapes").k = "arr"
  THEN Get(JSONparse(object).val, "shapes").items ELSE <<>>

MessageOf(object) ==
  IF Get(JSONparse(object).val, "message").k = "str"
  THEN Get(JSONparse(object).val, "message").s ELSE ""

\* The actions of the objects with a bar between them.
RECURSIVE Barred(_)
Barred(objects) ==
  IF Len(objects) = 1 THEN ActionOf(objects[1])
  ELSE ActionOf(objects[1]) \o "|" \o Barred(Tail(objects))

RECURSIVE AllShapes(_)
AllShapes(objects) ==
  IF objects = <<>> THEN <<>> ELSE ShapesOf(objects[1]) \o AllShapes(Tail(objects))

\* The oracle answered with two or more well-formed objects one after the
\* other, and interpretCommand has returned.
SeveralObjects ==
  /\ oracle.pc = "returned"
  /\ oracle.via # "api"
  /\ oracle.response.wrap # "broken"
  /\ Len(oracle.response.made) >= 2

\* C18: for a response of two or more concatenated JSON objects the
\* interpretation's action is the objects' actions joined with "|" in
\* response order and its shapes are the objects' shapes arrays
\* concatenated in response order.
C18_MultiObjectMerge ==
  SeveralObjects
    => /\ oracle.result.action = Str(Barred(oracle.response.made))
       /\ oracle.result.shapes = Arr(AllShapes(oracle.response.made))

\* "clear" then "draw" has given "clear|draw" with the circle.
C18_Witness ==
  /\ SeveralObjects
  /\ oracle.response.made = <<ClearObject, CircleObject>>
  /\ oracle.via = "merge"
  /\ oracle.result.action = Str("clear|draw")
  /\ Len(oracle.result.shapes.items) = 1

\* The last message among the objects that is not empty; "" when none is.
RECURSIVE LastNonEmpty(_)
LastNonEmpty(objects) ==
  IF objects = <<>> THEN ""
  ELSE IF MessageOf(objects[Len(objects)]) # "" THEN MessageOf(objects[Len(objects)])
  ELSE LastNonEmpty(SubSeq(objects, 1, Len(objects) - 1))

\* C19: when several objects parse and one of them carries a message that
\* is not empty, the merged interpretation's message is the last such
\* message in response order; an empty or missing message replaces nothing.
C19_LastNonEmptyMessage ==
  (SeveralObjects /\ LastNonEmpty(oracle.response.made) # "")
    => oracle.result.message = Str(LastNonEmpty(oracle.response.made))

\* The oracle answered with one well-formed object, bare or between code
\* fences, and the two helpers have been applied to the text.
SingleObject ==
  /\ oracle.pc = "applied"
  /\ Len(oracle.response.made) = 1
  /\ oracle.response.wrap \in {"bare", "fence"}

\* C20: for a single well-formed JSON object, bare or wrapped in code
\* fences with or without a language tag, sanitizeAiResponse followed by
\* extractJsonBlocks yields exactly one block, equal to the object as
\* JSON.parse reads it.
C20_SanitizerRoundTrip ==
  SingleObject => oracle.blocks = <<JSONparse(oracle.response.made[1]).val>>

\* The triggers in the order the claim gives them, with the name and the
\* shapes of the template each stands for.
Triggers ==
  << [words |-> {"smile", "smiley"}, name |-> "smiley", shapes |-> SmileyTemplate],
     [words |-> {"sad face"}, name |-> "sad", shapes |-> SadTemplate],
     [words |-> {"sun"}, name |-> "sun", shapes |-> SunTemplate],
     [words |-> {"tree"}, name |-> "tree", shapes |-> TreeTemplate],
     [words |-> {"house"}, name |-> "house", shapes |-> HouseTemplate],
     [words |-> {"apple"}, name |-> "apple", shapes |-> AppleTemplate] >>

\* The triggers the lower-cased command contains, by their place in the order.
Triggered(command) ==
  {k \in DOMAIN Triggers :
     \E w \in Triggers[k].words : Occurrences(toLowerCase(command), w) # {}}

TypesOf(shapes) == [i \in DOMAIN shapes |-> shapes[i].type]

\* C21: the template matcher has returned; for a command with a trigger
\* the result is applied with the name and the shapes of the earliest
\* trigger in the order smile/smiley, sad face, sun, tree, house, apple,
\* whatever the oracle's shapes are (the smiley is three circles and a
\* line); for a command without one it is the oracle's shapes, not applied.
C21_TemplateFirstMatch ==
  bench.pc # "given"
    => /\ bench.pc # "thrown"
       /\ IF Triggered(bench.command) # {}
          THEN /\ bench.templated.applied
               /\ bench.templated.templateName = Triggers[SetMin(Triggered(bench.command))].name
               /\ bench.templated.shapes = Triggers[SetMin(Triggered(bench.command))].shapes
               /\ bench.templated.templateName = "smiley"
                    => TypesOf(bench.templated.shapes) = <<"circle", "circle", "circle", "line">>
          ELSE ~bench.templated.applied /\ bench.templated.shapes = bench.shapes

\* The group the normalizer was given and its bounding box.
Given == workingShapes(bench)

GivenBox == computeBounds(Given)

\* The normalizer has run on a group that has a bounding box.
Normalized == bench.pc = "normalized" /\ GivenBox.ok

\* v scaled by the fraction sc[1] / sc[2].
Times(v, sc) == (v * sc[1]) \div sc[2]

\* v mapped about the centre c onto the destination centre d.
MappedTo(v, c, d, sc) == Times(v - c, sc) + d

\* The bounding width and height as the normalizer takes them: at least 1.
AtLeast1(v) == IF v >= Px(1) THEN v ELSE Px(1)

SizeBy(v, sc, floored) == IF floored THEN AtLeast1(Times(v, sc)) ELSE Times(v, sc)

\* Every numeric coordinate of the shapes of the five types is mapped about
\* (cx, cy) with the scale sc, and every numeric width, height and radius
\* is multiplied by it (floored: and is then at least 1).
ScaledAbout(cx, cy, sc, floored) ==
  /\ Len(bench.work) = Len(Given)
  /\ \A i \in DOMAIN Given :
       Given[i].type \in ShapeTypes
         => /\ (IsNum(Given[i], "x") /\ IsNum(Given[i], "y"))
                 => /\ bench.work[i].x = MappedTo(Given[i].x, cx, CenterX, sc)
                    /\ bench.work[i].y = MappedTo(Given[i].y, cy, CenterY, sc)
            /\ (Given[i].type = "line" /\ IsNum(Given[i], "x") /\ IsNum(Given[i], "y")
                  /\ IsNum(Given[i], "x2") /\ IsNum(Given[i], "y2"))
                 => /\ bench.work[i].x2 = MappedTo(Given[i].x2, cx, CenterX, sc)
                    /\ bench.work[i].y2 = MappedTo(Given[i].y2, cy, CenterY, sc)
            /\ (Given[i].type \in {"rectangle", "triangle"} /\ IsNum(Given[i], "width"))
                 => bench.work[i].width = SizeBy(Given[i].width, sc, floored)
            /\ (Given[i].type \in {"rectangle", "triangle"} /\ IsNum(Given[i], "height"))
                 => bench.work[i].height = SizeBy(Given[i].height, sc, floored)
            /\ (Given[i].type \in {"circle", "star"} /\ IsNum(Given[i], "radius"))
                 => bench.work[i].radius = SizeBy(Given[i].radius, sc, floored)

\* min(w / bw, h / bh) as a fraction; a ratio over 0 is infinite.
MinRatio(bw, bh) ==
  IF bh = 0 \/ (bw # 0 /\ TargetW * bh <= TargetH * bw)
  THEN <<TargetW, bw>> ELSE <<TargetH, bh>>

BoxW == GivenBox.maxX - GivenBox.minX

BoxH == GivenBox.maxY - GivenBox.minY

\* C22 (as claimed): one factor, min(target.w / boundingWidth, target.h /
\* boundingHeight); every coordinate is (coord - boundsCentre) * factor +
\* destinationCentre; width, height and radius are multiplied by the factor.
C22_UniformScaling ==
  (Normalized /\ (BoxW > 0 \/ BoxH > 0))
    => ScaledAbout(GivenBox.minX + BoxW \div 2, GivenBox.minY + BoxH \div 2,
                   MinRatio(BoxW, BoxH), FALSE)

\* C22 (amended): one factor, min(target.w / bw, target.h / bh) with bw and
\* bh the bounding width and height taken as at least 1; every coordinate
\* is (coord - c) * factor + destinationCentre with c = (minX + bw / 2,
\* minY + bh / 2); width, height and radius are multiplied by the factor
\* and are never made less than 1.
C22_UniformScalingFloored ==
  Normalized
    => ScaledAbout(GivenBox.minX + AtLeast1(BoxW) \div 2,
                   GivenBox.minY + AtLeast1(BoxH) \div 2,
                   MinRatio(AtLeast1(BoxW), AtLeast1(BoxH)), TRUE)

\* The group with bounding box 100x50 has come out 300x150 about (400,300):
\* factor 3 on both axes.
C22_Witness ==
  /\ Normalized
  /\ Given = << Rect(0, 0, 100, 50) >>
  /\ bench.work = << Stroke(Rect(250, 225, 300, 150), 2) >>

\* C23: when the transcription call fails, transcribeAudio gives the empty
\* string and the voice handler ends there: no chat message, no oracle
\* call, no executeCommand, the canvas as it was, nothing sent to any
\* client, no error event; and it stays so.
C23_FailedTranscriptionIsNoCommand ==
  /\ [][\A c \in Cmds :
          (hist[c].voice = "" /\ hist'[c].voice = "failed")
            => /\ cmd'[c].pc = "done" /\ cmd'[c].text = ""
               /\ store' = store /\ nextId' = nextId /\ writeLog' = writeLog
               /\ viewerQueue' = viewerQueue /\ viewerShapes' = viewerShapes
               /\ hist'[c] = [NoHist EXCEPT !.voice = "failed"]]_vars
  /\ [](\A c \in Cmds :
          hist[c].voice = "failed"
            => /\ cmd[c].pc = "done"
               /\ ~hist[c].started /\ ~hist[c].aiMessage /\ ~hist[c].errorEvent
               /\ hist[c].created = <<>> /\ hist[c].removed = {} /\ ~hist[c].cleared)

\* A recording whose transcription failed has been handled on a canvas that
\* is not empty, and another recording was heard and drawn.
C23_Witness ==
  \E c, d \in Cmds :
    /\ hist[c].voice = "failed" /\ cmd[c].pc = "done"
    /\ hist[d].voice = "heard" /\ hist[d].created # <<>>
    /\ store # <<>> /\ connected

\* The step is a clearShapes call that took effect.
Clears == Len(writeLog') = Len(writeLog) + 1 /\ writeLog'[Len(writeLog')].op = "clear"

C25_StrokeWidthInRange ==
  \A c \in Cmds : \A i \in RowsOf(c) : store[i].strokeWidth \in 1..20

\* ---------------------------------------------------------------------------
\* C26: on the no-eviction revision, when two draw commands each read a
\* canvas that leaves their group at least two collision-free candidates, no
\* shape persisted by one overlaps (boxes, margin 10) a shape persisted by the
\* other.
FreeCandidates(c) == {rc \in Grid : FreeAt(hist[c].group, hist[c].canvas0, rc)}

C26_ConcurrentPlacementDisjoint ==
  variant = "delta" =>
    \A c, d \in Cmds :
       (/\ c # d
        /\ hist[c].returned = "scan" /\ hist[d].returned = "scan"
        /\ Cardinality(FreeCandidates(c)) >= 2 /\ Cardinality(FreeCandidates(d)) >= 2)
         => ~(\E i \in RowsOf(c) : \E j \in RowsOf(d) :
                \E a \in {getShapeBounds(store[i])} : \E b \in {getShapeBounds(store[j])} :
                   a.ok /\ b.ok /\ rectsOverlap(a, b))

\* ---------------------------------------------------------------------------
\* C27: on the no-eviction revision, a command whose text contains neither
\* "clear" nor "delete" removes no shape that was on the canvas before it,
\* whatever "|" combination of draw, clear, delete, modify and select the
\* oracle answered with.
NamesNoWipe(text) == ~Includes(text, "clear") /\ ~Includes(text, "delete")

C27_NoOracleWipe ==
  variant = "delta" =>
    \A c \in Cmds :
       (hist[c].started /\ NamesNoWipe(cmd[c].text))
         => /\ hist[c].removed = {}
            /\ SeqToSet(hist[c].before) \subseteq SeqToSet(Ids(store))

\* ---------------------------------------------------------------------------
\* C28: on the no-eviction revision, every shape of a normalized group that
\* the placement moved onto one of the 16 candidate centres has its box
\* within the 800x600 canvas.
CentreOf(b) == [x |-> b.minX + (b.maxX - b.minX) \div 2, y |-> b.minY + (b.maxY - b.minY) \div 2]

OnCandidate(group) ==
  computeBounds(group).ok /\ CentreOf(computeBounds(group)) \in SeqToSet(Candidates)

WithinCanvas(b) == 0 <= b.minX /\ b.maxX <= CanvasW /\ 0 <= b.minY /\ b.maxY <= CanvasH

C28_PlacedOnCanvas ==
  variant = "delta" =>
    \A c \in Cmds :
       (hist[c].returned = "scan" /\ OnCandidate(hist[c].placed))
         => \A i \in DOMAIN hist[c].placed :
               getShapeBounds(hist[c].placed[i]).ok
                 => WithinCanvas(getShapeBounds(hist[c].placed[i]))

\* ---------------------------------------------------------------------------
\* C29: whatever the order in which the delta messages (shape_created,
\* shape_deleted, shapes_cleared) and the snapshots reach the client, its
\* shape list never holds an id twice, and once every message is delivered
\* and no snapshot is pending it holds every shape of the record store.
NoDuplicates(q) == \A i, j \in DOMAIN q : q[i] = q[j] => i = j

AllDelivered == viewerQueue = <<>> /\ reader.pc = "idle"

C29_ClientListExact ==
  /\ NoDuplicates(viewerShapes)
  /\ AllDelivered => SeqToSet(Ids(store)) \subseteq SeqToSet(viewerShapes)

\* ---------------------------------------------------------------------------
\* C30: for every oracle response that is parseable JSON, the interpretation
\* interpretCommand returns has an action that is a non-empty string.
ParseableJson == JSONparse(oracle.response.text).ok

C30_ActionIsString ==
  (oracle.pc = "returned" /\ ParseableJson)
    => oracle.result.action.k = "str" /\ oracle.result.action.s # ""

====
